---- MODULE Spec2Model ----
(***************************************************************************)
(* A model of the frame-sampling and batched-analysis pipeline of          *)
(* visual-breakdown:                                                       *)
(*   - GPTVisionAnalyzer.analyze_multiple_frames_async and                 *)
(*     generate_comprehensive_summary            (gpt_utils.py)   : Spec   *)
(*   - extract_fixed_frames                      (video_utils.py) :        *)
(*                                                     SpecSampler         *)
(*   - VideoSimilarityAnalyzer                   (similarity_analyzer.py): *)
(*                                                     SpecSimilarity      *)
(* Python dicts are records; a dict that lacks a key is a record that      *)
(* lacks the field, and dict.get(k, d) is Get(r, k, d).  Indices are       *)
(* 0-based where the code's are (i, j, frame_idx, frame_index), and        *)
(* Python lists are sequences (list[k] is seq[k + 1]).                     *)
(***************************************************************************)
EXTENDS Integers, Sequences, FiniteSets, TLC

VARIABLES
    \* ---- analyze_multiple_frames_async (gpt_utils.py:222-274)
    frame_data,         \* the argument: sequence of <<timestamp, frame_path>>
    batch_size,         \* the argument
    progress_callback,  \* TRUE when a callback is supplied
    outcome,            \* what the world does to the call for each position
    pc,                 \* "loop" | "gather" | "done" | "raised"
    i,                  \* the loop variable of line 238
    batch_tasks,        \* line 240/245: <<timestamp, frame_path, frame_idx>>
    task_state,         \* per frame_idx: "none"|"created"|"inflight"|"done"
    task_result,        \* per frame_idx: the dict its coroutine returned
    completion_order,   \* frame_idx of the coroutines in the order they ended
    results,            \* line 234
    oracle_calls,       \* chat.completions.create calls issued for frames
    progress_log,       \* arguments of the progress_callback invocations
    \* ---- generate_comprehensive_summary (gpt_utils.py:276-366)
    spc,                \* "idle" | "await" | "done" | "raised"
    summary_outcome,    \* what the oracle does to the summary call
    summary_prompt,     \* successful_descriptions embedded in the prompt
    summary_calls,      \* chat.completions.create calls issued for summaries
    video_summary,      \* the dict returned
    \* ---- extract_fixed_frames (video_utils.py:6-75)
    video,              \* the file: [opens, fps, frame_count]
    max_frames,         \* the argument
    max_duration,       \* the argument
    xpc,                \* "idle" | "open" | "measure" | "select" | "loop"
                        \* | "release" | "done" | "raised"
    cap,                \* the VideoCapture: "none" | "open" | "released"
    analysis_frames,    \* line 34
    frame_indices,      \* lines 40-45
    fi,                 \* the loop variable i of line 52
    extracted_frames,   \* line 49
    faults,             \* decode and save failures so far
    skipped,            \* <<position, "decode" | "save">> of each of them
    exception,          \* what the call raised, if it did
    \* ---- extract_frames (video_utils.py:78-134)
    ivideo,             \* the file: [opens, fps, frame_count]
    interval_seconds,   \* the argument, a fraction
    ipc,                \* "idle" | "open" | "measure" | "loop" | "done"
                        \* | "raised"
    icap,               \* the VideoCapture: "none" | "open" | "released"
    frame_interval,     \* line 106
    frame_count,        \* line 109
    selected_frames,    \* the frame counts that passed the test of line 117
    interval_frames,    \* extracted_frames of line 108
    iexception,         \* what the call raised, if it did
    \* ---- VideoSimilarityAnalyzer (similarity_analyzer.py)
    video_results,      \* the argument of both comparisons
    mpc,                \* "idle" | "holistic" | "holistic_await" | "pairwise"
                        \* | "pair_loop" | "pair_await" | "done"
    similarity_result,  \* what analyze_similarities_async returned
    holistic_calls,     \* chat.completions.create calls of the holistic part
    pi,                 \* the loop variable i of line 280
    pj,                 \* the loop variable j of line 281
    comparisons,        \* line 277
    pair_calls,         \* <<i, j>> of each pairwise oracle call, in order
    pair_outcomes,      \* what the oracle did to each of them: TRUE = answered
    pairwise_result,    \* what generate_pairwise_comparisons returned
    \* ---- BatchVideoProcessor.process_youtube_urls (batch_processor.py)
    urls,               \* the argument: sequence of [id, valid]
    max_videos,         \* the argument
    batch_size_arg,     \* the argument batch_size
    bpc,                \* "idle" | "download" | "process" | "similarity"
                        \* | "done" | "raised"
    download_log,       \* what the world did to each download
    download_results,   \* line 87
    vi,                 \* videos processed so far by the loop of line 103
    process_log,        \* what the world did to each processed video
    saved_report,       \* batch_analysis_report.json (lines 128-130)
    batch_return,       \* what process_youtube_urls returned
    stage_log           \* the stages executed so far: [stage, video, calls]

analyzeVars == <<frame_data, batch_size, progress_callback, outcome, pc, i,
                 batch_tasks, task_state, task_result, completion_order,
                 results, oracle_calls, progress_log>>
summaryVars == <<spc, summary_outcome, summary_prompt, summary_calls,
                 video_summary>>
fixedVars == <<video, max_frames, max_duration, xpc, cap, analysis_frames,
               frame_indices, fi, extracted_frames, faults, skipped,
               exception>>
intervalVars == <<ivideo, interval_seconds, ipc, icap, frame_interval,
                  frame_count, selected_frames, interval_frames, iexception>>
samplerVars == <<fixedVars, intervalVars>>
similarityVars == <<video_results, mpc, similarity_result, holistic_calls,
                    pi, pj, comparisons, pair_calls, pair_outcomes,
                    pairwise_result>>
batchVars == <<urls, max_videos, batch_size_arg, bpc, download_log,
               download_results, vi, process_log, saved_report, batch_return,
               stage_log>>
vars == <<analyzeVars, summaryVars, samplerVars, similarityVars, batchVars>>

(***************************************************************************)
(* Bounds.                                                                 *)
(***************************************************************************)
MaxFrames == 4
MaxBatch == 3
MaxFrameCount == 8
MaxMaxFrames == 4
MaxDuration == 3
MaxFaults == 2
MaxVideos == 4
MaxUrls == 2
MaxIntervalCount == 6

(***************************************************************************)
(* Helpers for Python values.                                              *)
(***************************************************************************)
Get(d, key, default) == IF key \in DOMAIN d THEN d[key] ELSE default

Min(a, b) == IF a <= b THEN a ELSE b

Max(a, b) == IF a >= b THEN a ELSE b

\* Python floats are exact rationals <<numerator, denominator>> with a
\* positive denominator; the rounding of binary floating point is not
\* modelled.
RatOfInt(n) == <<n, 1>>

RatLeq(a, b) == a[1] * b[2] <= b[1] * a[2]

RatLess(a, b) == a[1] * b[2] < b[1] * a[2]

RatMin(a, b) == IF RatLeq(a, b) THEN a ELSE b

RatMul(a, b) == <<a[1] * b[1], a[2] * b[2]>>

\* a / b for b > 0
RatDiv(a, b) == <<a[1] * b[2], a[2] * b[1]>>

\* int(x): truncation toward zero.
Trunc(a) ==
    IF a[1] >= 0 THEN a[1] \div a[2] ELSE -((-a[1]) \div a[2])

\* f"{x:.2f}" for x >= 0, in hundredths: round half to even.
Fmt2(a) ==
    LET n == a[1] * 100
        q == n \div a[2]
        r == n % a[2]
    IN  IF 2 * r > a[2] \/ (2 * r = a[2] /\ q % 2 = 1) THEN q + 1 ELSE q

None == [none |-> TRUE]

RECURSIVE SumSeq(_)
SumSeq(s) == IF s = <<>> THEN 0 ELSE Head(s) + SumSeq(Tail(s))

\* Increasing sequence of the elements of a finite set of integers.
RECURSIVE SortedSeq(_)
SortedSeq(S) ==
    IF S = {} THEN <<>>
    ELSE LET m == CHOOSE x \in S : \A y \in S : x <= y
         IN  <<m>> \o SortedSeq(S \ {m})

(***************************************************************************)
(* A component that is not part of a specification stays as it is here.    *)
(***************************************************************************)
AnalyzeIdle ==
    /\ frame_data = <<>>
    /\ batch_size = 1
    /\ progress_callback = FALSE
    /\ outcome = <<>>
    /\ pc = "idle"
    /\ i = 0
    /\ batch_tasks = <<>>
    /\ task_state = <<>>
    /\ task_result = <<>>
    /\ completion_order = <<>>
    /\ results = <<>>
    /\ oracle_calls = 0
    /\ progress_log = <<>>

SummaryIdle ==
    /\ spc = "idle"
    /\ summary_outcome = "none"
    /\ summary_prompt = <<>>
    /\ summary_calls = 0
    /\ video_summary = None

SamplerIdle ==
    /\ video = None
    /\ max_frames = 0
    /\ max_duration = 0
    /\ xpc = "idle"
    /\ cap = "none"
    /\ analysis_frames = 0
    /\ frame_indices = <<>>
    /\ fi = 0
    /\ extracted_frames = <<>>
    /\ faults = 0
    /\ skipped = <<>>
    /\ exception = None

IntervalIdle ==
    /\ ivideo = None
    /\ interval_seconds = <<0, 1>>
    /\ ipc = "idle"
    /\ icap = "none"
    /\ frame_interval = 0
    /\ frame_count = 0
    /\ selected_frames = <<>>
    /\ interval_frames = <<>>
    /\ iexception = None

SimilarityIdle ==
    /\ video_results = <<>>
    /\ mpc = "idle"
    /\ similarity_result = None
    /\ holistic_calls = 0
    /\ pi = 0
    /\ pj = 0
    /\ comparisons = <<>>
    /\ pair_calls = <<>>
    /\ pair_outcomes = <<>>
    /\ pairwise_result = None

BatchIdle ==
    /\ urls = <<>>
    /\ max_videos = 0
    /\ batch_size_arg = 0
    /\ bpc = "idle"
    /\ download_log = <<>>
    /\ download_results = <<>>
    /\ vi = 0
    /\ process_log = <<>>
    /\ saved_report = None
    /\ batch_return = None
    /\ stage_log = <<>>

(***************************************************************************)
(* The world of one analyze_multiple_frames_async call.                    *)
(***************************************************************************)
\* What happens to the analysis of one frame: the image file is missing
\* (line 58), the oracle call raises (line 183), the response cannot be read
\* (lines 206/211), or all goes well.
Outcomes == {"ok", "missing", "api_error", "malformed"}

\* Frames are named by their timestamp.
FramePath(t) == <<"frame", t>>

\* Strictly increasing frame lists of at most MaxFrames frames, as a sampler
\* returns them.
FrameLists ==
    {[k \in 1..Len(SortedSeq(S)) |->
         <<SortedSeq(S)[k], FramePath(SortedSeq(S)[k])>>] :
       S \in SUBSET (1..MaxFrames)}

\* --batch-size is any int (main.py:135, youtube_batch_analyzer.py:180).
BatchSizes == {-1, 0} \cup (1..MaxBatch)

\* response.usage.total_tokens of the call for a frame (line 211).
OracleTokens(frame_path) == frame_path[2]

\* str(e) of the exception an outcome raises.
ErrorText(o) ==
    CASE o = "missing"   -> "Image file not found"
      [] o = "api_error" -> "oracle error"
      [] OTHER           -> "malformed response"

(***************************************************************************)
(* analyze_frame_async (gpt_utils.py:164-220).  A coroutine ends with      *)
(* [raised |-> FALSE, value |-> dict] or [raised |-> TRUE, error |-> e].   *)
(***************************************************************************)
\* lines 58-59: FileNotFoundError for a missing image.
encode_image_to_base64(o) ==
    IF o = "missing" THEN [raised |-> TRUE, error |-> ErrorText(o)]
    ELSE [raised |-> FALSE]

\* lines 205-213: the dict of a successful call.
analyze_frame_return(frame_path) ==
    [raised |-> FALSE,
     value |-> [success |-> TRUE,
                description |-> <<"description", frame_path>>,
                tokens_used |-> OracleTokens(frame_path),
                model |-> "gpt-4o"]]

\* The handler without its except clause: the exception leaves the coroutine.
analyze_frame_reraise(e) == [raised |-> TRUE, error |-> e]

\* lines 215-220: except Exception as e.
analyze_frame_except(e) ==
    [raised |-> FALSE,
     value |-> [success |-> FALSE,
                error |-> e,
                description |-> <<"Error analyzing frame: ", e>>]]

\* lines 183-213 after the await: the response arrives or the call raises.
analyze_frame_resume(frame_path, o) ==
    IF o = "ok" THEN analyze_frame_return(frame_path)
    ELSE analyze_frame_except(ErrorText(o))

(***************************************************************************)
(* analyze_multiple_frames_async (gpt_utils.py:222-274).                   *)
(***************************************************************************)
total_frames == Len(frame_data)

\* range(0, total_frames, batch_size) still has i to deliver (line 238).
InRange(idx, stop, step) == IF step > 0 THEN idx < stop ELSE idx > stop

\* frame_data[lo:hi] for 0 <= lo (line 239).
Slice(s, lo, hi) == SubSeq(s, lo + 1, Min(hi, Len(s)))

\* An off-by-one slice: one frame too many.
BatchOfWide(idx) == Slice(frame_data, idx, idx + batch_size + 1)

\* line 239
BatchOf(idx) == Slice(frame_data, idx, idx + batch_size)

\* lines 243-245: (timestamp, frame_path, i + j, task) for each frame.
MakeTasks(batch, idx) ==
    [j \in 1..Len(batch) |-> <<batch[j][1], batch[j][2], idx + (j - 1)>>]

TaskIdx(tasks) == {tasks[j][3] : j \in 1..Len(tasks)}

\* line 251: asyncio.gather resumes the caller when every awaitable ended.
GatherDone(tasks) == \A k \in TaskIdx(tasks) : task_state[k] = "done"

\* The results in the order the coroutines ended (asyncio.as_completed).
GatherCompletionOrder(tasks) ==
    LET ended == SelectSeq(completion_order,
                           LAMBDA k : k \in TaskIdx(tasks))
    IN  [j \in 1..Len(ended) |-> Get(task_result[ended[j]], "value", None)]

\* line 251: asyncio.gather returns the results in the order of its arguments.
Gather(tasks) ==
    [j \in 1..Len(tasks) |-> Get(task_result[tasks[j][3]], "value", None)]

\* The frame number without the + 1 of line 258.
MakeResultZeroBased(task, analysis_result) ==
    analysis_result @@ [timestamp |-> task[1],
                        frame_path |-> task[2],
                        frame_number |-> task[3]]

\* lines 255-260: the result dict; ** lets analysis_result win a key clash.
MakeResult(task, analysis_result) ==
    analysis_result @@ [timestamp |-> task[1],
                        frame_path |-> task[2],
                        frame_number |-> task[3] + 1]

\* lines 254-262: zip(batch_tasks, batch_results).
Collect(tasks, batch_results) ==
    [j \in 1..Min(Len(tasks), Len(batch_results)) |->
        MakeResult(tasks[j], batch_results[j])]

\* One invocation per chunk, with the chunk's last result.
ProgressCallsPerChunk(collected) ==
    IF collected = <<>> THEN <<>>
    ELSE <<<<collected[Len(collected)].frame_number, total_frames,
             collected[Len(collected)]>>>>

\* line 266, once per collected result.
ProgressCalls(collected) ==
    [j \in 1..Len(collected) |->
        <<collected[j].frame_number, total_frames, collected[j]>>]

(***************************************************************************)
(* The sequential analyze_multiple_frames (gpt_utils.py:122-162) and the   *)
(* analyze_frame it calls for each frame in turn (gpt_utils.py:64-120).    *)
(***************************************************************************)
\* lines 75-120: the dict analyze_frame returns; every exception is caught.
analyze_frame(image_path, o) ==
    IF encode_image_to_base64(o).raised
    THEN [success |-> FALSE,
          error |-> encode_image_to_base64(o).error,
          description |-> <<"Error analyzing frame: ",
                            encode_image_to_base64(o).error>>]
    ELSE IF o = "ok"
         THEN [success |-> TRUE,
               description |-> <<"description", image_path>>,
               tokens_used |-> OracleTokens(image_path),
               model |-> "gpt-4o"]
         ELSE [success |-> FALSE,
               error |-> ErrorText(o),
               description |-> <<"Error analyzing frame: ", ErrorText(o)>>]

\* lines 133-162: the loop over enumerate(frame_data), from position idx on.
RECURSIVE sequential_from(_, _, _)
sequential_from(frames, outcomes, idx) ==
    IF idx >= Len(frames) THEN <<>>
    ELSE LET timestamp == frames[idx + 1][1]
             frame_path == frames[idx + 1][2]
             analysis_result == analyze_frame(frame_path, outcomes[idx + 1])
             result == analysis_result @@ [timestamp |-> timestamp,
                                           frame_path |-> frame_path,
                                           frame_number |-> idx + 1]
         IN  <<result>> \o sequential_from(frames, outcomes, idx + 1)

\* gpt_utils.py:122-162
analyze_multiple_frames_sequential(frames, outcomes) ==
    sequential_from(frames, outcomes, 0)

AnalyzeInit ==
    /\ frame_data \in FrameLists
    /\ batch_size \in BatchSizes
    /\ progress_callback \in BOOLEAN
    /\ outcome \in [1..Len(frame_data) -> Outcomes]
    /\ pc = "loop"
    /\ i = 0
    /\ batch_tasks = <<>>
    /\ task_state = [k \in 0..(Len(frame_data) - 1) |-> "none"]
    /\ task_result = [k \in 0..(Len(frame_data) - 1) |-> None]
    /\ completion_order = <<>>
    /\ results = <<>>
    /\ oracle_calls = 0
    /\ progress_log = <<>>

\* line 238 with batch_size = 0: range() raises ValueError.
RangeError ==
    /\ pc = "loop"
    /\ batch_size = 0
    /\ pc' = "raised"
    /\ UNCHANGED <<frame_data, batch_size, progress_callback, outcome, i,
                   batch_tasks, task_state, task_result, completion_order,
                   results, oracle_calls, progress_log>>
    /\ UNCHANGED <<summaryVars, samplerVars, similarityVars, batchVars>>

\* lines 238-251: one iteration up to the await of gather.
StartBatch ==
    /\ pc = "loop"
    /\ batch_size # 0
    /\ InRange(i, total_frames, batch_size)
    /\ LET tasks == MakeTasks(BatchOf(i), i)
       IN  /\ batch_tasks' = tasks
           /\ task_state' = [k \in DOMAIN task_state |->
                                IF k \in TaskIdx(tasks) THEN "created"
                                ELSE task_state[k]]
    /\ pc' = "gather"
    /\ UNCHANGED <<frame_data, batch_size, progress_callback, outcome, i,
                   task_result, completion_order, results, oracle_calls,
                   progress_log>>
    /\ UNCHANGED <<summaryVars, samplerVars, similarityVars, batchVars>>

\* A coroutine ends: its result is kept, and an exception that left it is
\* raised by the awaited gather at once (return_exceptions is False).
TaskEnds(k, ending) ==
    /\ task_state' = [task_state EXCEPT ![k] = "done"]
    /\ task_result' = [task_result EXCEPT ![k] = ending]
    /\ completion_order' = Append(completion_order, k)
    /\ pc' = IF ending.raised /\ pc = "gather" THEN "raised" ELSE pc

\* The first step of the coroutine of frame k, lines 175-183: encode the
\* image, then issue the oracle call and suspend.  The event loop runs the
\* first steps in the order gather was given the coroutines.
TaskStart(k) ==
    /\ task_state[k] = "created"
    /\ \A m \in DOMAIN task_state : m < k => task_state[m] # "created"
    /\ LET enc == encode_image_to_base64(outcome[k + 1])
       IN  IF enc.raised
           THEN /\ TaskEnds(k, analyze_frame_except(enc.error))
                /\ UNCHANGED oracle_calls
           ELSE /\ task_state' = [task_state EXCEPT ![k] = "inflight"]
                /\ oracle_calls' = oracle_calls + 1
                /\ UNCHANGED <<task_result, completion_order, pc>>
    /\ UNCHANGED <<frame_data, batch_size, progress_callback, outcome, i,
                   batch_tasks, results, progress_log>>
    /\ UNCHANGED <<summaryVars, samplerVars, similarityVars, batchVars>>

\* The oracle call of frame k ends, in any order among those in flight.
OracleRespond(k) ==
    /\ task_state[k] = "inflight"
    /\ TaskEnds(k, analyze_frame_resume(frame_data[k + 1][2], outcome[k + 1]))
    /\ UNCHANGED <<frame_data, batch_size, progress_callback, outcome, i,
                   batch_tasks, results, oracle_calls, progress_log>>
    /\ UNCHANGED <<summaryVars, samplerVars, similarityVars, batchVars>>

\* lines 251-272: gather returns; the results get their metadata, are
\* appended and reported, and the loop moves to the next chunk.
GatherReturn ==
    /\ pc = "gather"
    /\ GatherDone(batch_tasks)
    /\ LET collected == Collect(batch_tasks, Gather(batch_tasks))
       IN  /\ results' = results \o collected
           /\ progress_log' = IF progress_callback
                              THEN progress_log \o ProgressCalls(collected)
                              ELSE progress_log
    /\ i' = i + batch_size
    /\ pc' = "loop"
    /\ UNCHANGED <<frame_data, batch_size, progress_callback, outcome,
                   batch_tasks, task_state, task_result, completion_order,
                   oracle_calls>>
    /\ UNCHANGED <<summaryVars, samplerVars, similarityVars, batchVars>>

\* line 274: the range is exhausted.
Return ==
    /\ pc = "loop"
    /\ batch_size # 0
    /\ ~InRange(i, total_frames, batch_size)
    /\ pc' = "done"
    /\ UNCHANGED <<frame_data, batch_size, progress_callback, outcome, i,
                   batch_tasks, task_state, task_result, completion_order,
                   results, oracle_calls, progress_log>>
    /\ UNCHANGED <<summaryVars, samplerVars, similarityVars, batchVars>>


(***************************************************************************)
(* generate_comprehensive_summary (gpt_utils.py:276-366), called with the  *)
(* list analyze_multiple_frames_async returned (batch_processor.py:203-213)*)
(***************************************************************************)
SummaryOutcomes == {"ok", "api_error", "malformed"}

\* response.usage.total_tokens of the summary call (line 356).
SummaryTokens(prompt) == 100 + Len(prompt)

\* The fields line 289 formats into one line of the prompt.
DescriptionLine(result) ==
    <<result.frame_number, result.timestamp, result.description>>

\* A filter that lets every result through.
successful_descriptions_unfiltered(frame_analyses) ==
    [k \in 1..Len(frame_analyses) |-> DescriptionLine(frame_analyses[k])]

\* lines 288-292: the lines of the successful results, in list order.
successful_descriptions(frame_analyses) ==
    LET ok == SelectSeq(frame_analyses, LAMBDA r : r.success)
    IN  [k \in 1..Len(ok) |-> DescriptionLine(ok[k])]

\* lines 295-298
summary_no_frames ==
    [success |-> FALSE, error |-> "No successful frame analyses to summarize"]

\* frames_analyzed counts every frame result, not the successful ones.
summary_return_all(prompt) ==
    [raised |-> FALSE,
     value |-> [success |-> TRUE,
                summary |-> <<"summary", prompt>>,
                tokens_used |-> SummaryTokens(prompt),
                frames_analyzed |-> Len(results),
                model |-> "gpt-4o"]]

\* lines 351-359
summary_return(prompt) ==
    [raised |-> FALSE,
     value |-> [success |-> TRUE,
                summary |-> <<"summary", prompt>>,
                tokens_used |-> SummaryTokens(prompt),
                frames_analyzed |-> Len(prompt),
                model |-> "gpt-4o"]]

\* lines 361-366: except Exception as e.
summary_except(e) ==
    [raised |-> FALSE,
     value |-> [success |-> FALSE,
                error |-> e,
                summary |-> <<"Error generating summary: ", e>>]]

SummaryInit == SummaryIdle

\* lines 288-298: nothing to summarize, return without a call.
SummaryEmpty ==
    /\ pc = "done"
    /\ spc = "idle"
    /\ successful_descriptions(results) = <<>>
    /\ video_summary' = summary_no_frames
    /\ spc' = "done"
    /\ UNCHANGED <<summary_outcome, summary_prompt, summary_calls>>
    /\ UNCHANGED <<analyzeVars, samplerVars, similarityVars, batchVars>>

\* lines 288-349: build the prompt and issue the oracle call.
SummaryCall ==
    /\ pc = "done"
    /\ spc = "idle"
    /\ successful_descriptions(results) # <<>>
    /\ summary_prompt' = successful_descriptions(results)
    /\ summary_calls' = summary_calls + 1
    /\ spc' = "await"
    /\ UNCHANGED <<summary_outcome, video_summary>>
    /\ UNCHANGED <<analyzeVars, samplerVars, similarityVars, batchVars>>

\* lines 340-366: the call returns or raises.
SummaryRespond ==
    /\ spc = "await"
    /\ \E o \in SummaryOutcomes :
          LET ending == IF o = "ok" THEN summary_return(summary_prompt)
                        ELSE summary_except(ErrorText(o))
          IN  /\ summary_outcome' = o
              /\ video_summary' = Get(ending, "value", None)
              /\ spc' = IF ending.raised THEN "raised" ELSE "done"
    /\ UNCHANGED <<summary_prompt, summary_calls>>
    /\ UNCHANGED <<analyzeVars, samplerVars, similarityVars, batchVars>>

(***************************************************************************)
(* extract_fixed_frames (video_utils.py:6-75).                             *)
(***************************************************************************)
\* CAP_PROP_FPS of the files of the model; 0 is what OpenCV reports when it
\* cannot tell.
FpsValues == {<<0, 1>>, <<1, 1>>, <<2, 1>>, <<5, 2>>}

\* --max-frames is any int (youtube_batch_analyzer.py:168).
MaxFramesValues == {-1, 0} \cup (1..MaxMaxFrames)

\* A 5 s video at 10 frames per second, sampled with the defaults (line 6).
ScenarioVideo == [opens |-> TRUE, fps |-> <<10, 1>>, frame_count |-> 50]

SamplerInputs ==
    ([v : [opens : BOOLEAN, fps : FpsValues, frame_count : 0..MaxFrameCount],
      mf : MaxFramesValues,
      md : 1..MaxDuration])
    \cup {[v |-> ScenarioVideo, mf |-> 20, md |-> 20]}

\* lines 28-34: duration, analysis_duration and analysis_frames, for fps > 0.
AnalysisFrames(fps, n_frames, max_dur) ==
    LET duration == RatDiv(RatOfInt(n_frames), fps)
        analysis_duration == RatMin(duration, RatOfInt(max_dur))
    IN  Trunc(RatMul(fps, analysis_duration))

\* The branch condition inverted.
FrameIndicesInverted(n, m) ==
    IF n >= m THEN [k \in 1..Max(n, 0) |-> k - 1]
    ELSE [k \in 1..Max(m, 0) |-> Trunc(<<(k - 1) * n, m>>)]

\* No dense branch: the formula of line 45 for every video.
FrameIndicesSparseOnly(n, m) ==
    [k \in 1..Max(m, 0) |-> Trunc(<<(k - 1) * n, m>>)]

\* An integer step in place of line 45: i * (analysis_frames // max_frames).
FrameIndicesStep(n, m) ==
    IF n <= m THEN [k \in 1..Max(n, 0) |-> k - 1]
    ELSE [k \in 1..Max(m, 0) |-> (k - 1) * (n \div m)]

\* lines 40-45: list(range(n)), or int(i * n / m) for i in range(m).
FrameIndices(n, m) ==
    IF n <= m THEN [k \in 1..Max(n, 0) |-> k - 1]
    ELSE [k \in 1..Max(m, 0) |-> Trunc(<<(k - 1) * n, m>>)]

\* line 61
Timestamp(frame_index, fps) == RatDiv(RatOfInt(frame_index), fps)

\* lines 62-63: the ordinal and the timestamp of frame_{i+1:02d}_{t:.2f}s.jpg
FrameFile(idx, timestamp) == <<"frame", idx + 1, Fmt2(timestamp)>>

SamplerInit ==
    /\ \E inp \in SamplerInputs :
          /\ video = inp.v
          /\ max_frames = inp.mf
          /\ max_duration = inp.md
    /\ xpc = "open"
    /\ cap = "none"
    /\ analysis_frames = 0
    /\ frame_indices = <<>>
    /\ fi = 0
    /\ extracted_frames = <<>>
    /\ faults = 0
    /\ skipped = <<>>
    /\ exception = None

\* lines 23-25: open the file, or raise ValueError.
Open ==
    /\ xpc = "open"
    /\ IF video.opens
       THEN cap' = "open" /\ xpc' = "measure" /\ exception' = exception
       ELSE /\ cap' = cap
            /\ xpc' = "raised"
            /\ exception' = [type |-> "ValueError",
                             message |-> "Error: Could not open video file"]
    /\ UNCHANGED <<video, max_frames, max_duration, analysis_frames,
                   frame_indices, fi, extracted_frames, faults, skipped>>
    /\ UNCHANGED <<analyzeVars, summaryVars, similarityVars, batchVars,
                   intervalVars>>

\* lines 28-37: total_frames / fps raises ZeroDivisionError for fps = 0.
Measure ==
    /\ xpc = "measure"
    /\ IF video.fps[1] = 0
       THEN /\ xpc' = "raised"
            /\ exception' = [type |-> "ZeroDivisionError",
                             message |-> "float division by zero"]
            /\ UNCHANGED analysis_frames
       ELSE /\ analysis_frames' =
                   AnalysisFrames(video.fps, video.frame_count, max_duration)
            /\ xpc' = "select"
            /\ exception' = exception
    /\ UNCHANGED <<video, max_frames, max_duration, cap, frame_indices, fi,
                   extracted_frames, faults, skipped>>
    /\ UNCHANGED <<analyzeVars, summaryVars, similarityVars, batchVars,
                   intervalVars>>

\* lines 39-49
Select ==
    /\ xpc = "select"
    /\ frame_indices' = FrameIndices(analysis_frames, max_frames)
    /\ xpc' = "loop"
    /\ UNCHANGED <<video, exception, max_frames, max_duration, cap,
                   analysis_frames, fi, extracted_frames, faults, skipped>>
    /\ UNCHANGED <<analyzeVars, summaryVars, similarityVars, batchVars,
                   intervalVars>>

\* lines 52-69: the frame is read and saved.
ExtractFrame ==
    /\ xpc = "loop"
    /\ fi < Len(frame_indices)
    /\ LET timestamp == Timestamp(frame_indices[fi + 1], video.fps)
       IN  extracted_frames' =
              Append(extracted_frames, <<timestamp, FrameFile(fi, timestamp)>>)
    /\ fi' = fi + 1
    /\ UNCHANGED <<video, exception, max_frames, max_duration, xpc, cap,
                   analysis_frames, frame_indices, faults, skipped>>
    /\ UNCHANGED <<analyzeVars, summaryVars, similarityVars, batchVars,
                   intervalVars>>

\* The loop is left at the first frame that cannot be read.
ReadFailedBreaks(position) == [xpc |-> "loop", fi |-> Len(frame_indices)]

\* lines 57-59: a warning is printed and the loop continues with the next
\* index.
ReadFailed(position) == [xpc |-> "loop", fi |-> position]

\* lines 54-59: cap.read() returns ret = False; the index is skipped.
DecodeFails ==
    /\ xpc = "loop"
    /\ fi < Len(frame_indices)
    /\ faults < MaxFaults
    /\ faults' = faults + 1
    /\ skipped' = Append(skipped, <<fi + 1, "decode">>)
    /\ fi' = ReadFailed(fi + 1).fi
    /\ xpc' = ReadFailed(fi + 1).xpc
    /\ UNCHANGED <<video, exception, max_frames, max_duration, cap,
                   analysis_frames, frame_indices, extracted_frames>>
    /\ UNCHANGED <<analyzeVars, summaryVars, similarityVars, batchVars,
                   intervalVars>>

\* lines 66-71: cv2.imwrite returns False; the frame is not appended.
SaveFails ==
    /\ xpc = "loop"
    /\ fi < Len(frame_indices)
    /\ faults < MaxFaults
    /\ faults' = faults + 1
    /\ skipped' = Append(skipped, <<fi + 1, "save">>)
    /\ fi' = fi + 1
    /\ UNCHANGED <<video, exception, max_frames, max_duration, xpc, cap,
                   analysis_frames, frame_indices, extracted_frames>>
    /\ UNCHANGED <<analyzeVars, summaryVars, similarityVars, batchVars,
                   intervalVars>>

\* lines 73-75: the loop is over.
Release ==
    /\ xpc = "loop"
    /\ fi = Len(frame_indices)
    /\ cap' = "released"
    /\ xpc' = "done"
    /\ UNCHANGED <<video, exception, max_frames, max_duration,
                   analysis_frames, frame_indices, fi, extracted_frames,
                   faults, skipped>>
    /\ UNCHANGED <<analyzeVars, summaryVars, similarityVars, batchVars,
                   intervalVars>>

InitSampler ==
    /\ SamplerInit
    /\ IntervalIdle /\ AnalyzeIdle /\ SummaryIdle /\ SimilarityIdle /\ BatchIdle

NextSampler ==
    \/ Open
    \/ Measure
    \/ Select
    \/ ExtractFrame
    \/ DecodeFails
    \/ SaveFails
    \/ Release

SpecSampler == InitSampler /\ [][NextSampler]_vars

(***************************************************************************)
(* extract_frames (video_utils.py:78-134): every frame is read in turn,    *)
(* and those whose count is a multiple of frame_interval are saved.        *)
(***************************************************************************)
\* interval_seconds is any float (main.py): whole, fractional, and short
\* enough for fps * interval_seconds to fall below 1.
IntervalValues == {<<1, 1>>, <<2, 1>>, <<1, 2>>, <<3, 4>>, <<1, 4>>}

\* Frame rates of the interval mode: none, whole and fractional.
IntervalFpsValues == {<<0, 1>>, <<1, 1>>, <<2, 1>>, <<3, 1>>, <<5, 2>>}

IntervalInputs ==
    [v : [opens : BOOLEAN, fps : IntervalFpsValues,
          frame_count : 0..MaxIntervalCount],
     s : IntervalValues]

\* line 106: frame_interval = int(fps * interval_seconds)
FrameInterval(fps, seconds) == Trunc(RatMul(fps, seconds))

\* line 119: f"frame_{timestamp:.2f}s.jpg"
IntervalFrameFile(timestamp) == <<"frame", Fmt2(timestamp)>>

IntervalInit ==
    /\ \E inp \in IntervalInputs :
          /\ ivideo = inp.v
          /\ interval_seconds = inp.s
    /\ ipc = "open"
    /\ icap = "none"
    /\ frame_interval = 0
    /\ frame_count = 0
    /\ selected_frames = <<>>
    /\ interval_frames = <<>>
    /\ iexception = None

\* lines 94-96: open the file, or raise ValueError.
IntervalOpen ==
    /\ ipc = "open"
    /\ IF ivideo.opens
       THEN icap' = "open" /\ ipc' = "measure" /\ iexception' = iexception
       ELSE /\ icap' = icap
            /\ ipc' = "raised"
            /\ iexception' = [type |-> "ValueError",
                              message |-> "Error: Could not open video file"]
    /\ UNCHANGED <<ivideo, interval_seconds, frame_interval, frame_count,
                   selected_frames, interval_frames>>
    /\ UNCHANGED fixedVars
    /\ UNCHANGED <<analyzeVars, summaryVars, similarityVars, batchVars>>

\* lines 99-109: total_frames / fps raises ZeroDivisionError for fps = 0.
IntervalMeasure ==
    /\ ipc = "measure"
    /\ IF ivideo.fps[1] = 0
       THEN /\ ipc' = "raised"
            /\ iexception' = [type |-> "ZeroDivisionError",
                              message |-> "float division by zero"]
            /\ UNCHANGED frame_interval
       ELSE /\ frame_interval' = FrameInterval(ivideo.fps, interval_seconds)
            /\ ipc' = "loop"
            /\ iexception' = iexception
    /\ UNCHANGED <<ivideo, interval_seconds, icap, frame_count,
                   selected_frames, interval_frames>>
    /\ UNCHANGED fixedVars
    /\ UNCHANGED <<analyzeVars, summaryVars, similarityVars, batchVars>>

\* line 117: frame_count % 0 raises ZeroDivisionError.
IntervalModuloRaises ==
    /\ ipc = "loop"
    /\ frame_count < ivideo.frame_count
    /\ frame_interval = 0
    /\ ipc' = "raised"
    /\ iexception' = [type |-> "ZeroDivisionError",
                      message |-> "integer modulo by zero"]
    /\ UNCHANGED <<ivideo, interval_seconds, icap, frame_interval,
                   frame_count, selected_frames, interval_frames>>
    /\ UNCHANGED fixedVars
    /\ UNCHANGED <<analyzeVars, summaryVars, similarityVars, batchVars>>

\* lines 112-131: a frame is read, its count is no multiple of
\* frame_interval.
IntervalSkip ==
    /\ ipc = "loop"
    /\ frame_count < ivideo.frame_count
    /\ frame_interval # 0
    /\ frame_count % frame_interval # 0
    /\ frame_count' = frame_count + 1
    /\ UNCHANGED <<ivideo, interval_seconds, ipc, icap, frame_interval,
                   selected_frames, interval_frames, iexception>>
    /\ UNCHANGED fixedVars
    /\ UNCHANGED <<analyzeVars, summaryVars, similarityVars, batchVars>>

\* lines 112-131: a frame is read, its count is a multiple of
\* frame_interval, and it is saved.
IntervalExtract ==
    /\ ipc = "loop"
    /\ frame_count < ivideo.frame_count
    /\ frame_interval # 0
    /\ frame_count % frame_interval = 0
    /\ selected_frames' = Append(selected_frames, frame_count)
    /\ LET timestamp == Timestamp(frame_count, ivideo.fps)
       IN  interval_frames' =
              Append(interval_frames,
                     <<timestamp, IntervalFrameFile(timestamp)>>)
    /\ frame_count' = frame_count + 1
    /\ UNCHANGED <<ivideo, interval_seconds, ipc, icap, frame_interval,
                   iexception>>
    /\ UNCHANGED fixedVars
    /\ UNCHANGED <<analyzeVars, summaryVars, similarityVars, batchVars>>

\* lines 123-129: cv2.imwrite returns False; the frame is not appended.
IntervalSaveFails ==
    /\ ipc = "loop"
    /\ frame_count < ivideo.frame_count
    /\ frame_interval # 0
    /\ frame_count % frame_interval = 0
    /\ Len(selected_frames) - Len(interval_frames) < MaxFaults
    /\ selected_frames' = Append(selected_frames, frame_count)
    /\ frame_count' = frame_count + 1
    /\ UNCHANGED <<ivideo, interval_seconds, ipc, icap, frame_interval,
                   interval_frames, iexception>>
    /\ UNCHANGED fixedVars
    /\ UNCHANGED <<analyzeVars, summaryVars, similarityVars, batchVars>>

\* lines 113-115, 133-135: no frame is left, the loop is over.
IntervalRelease ==
    /\ ipc = "loop"
    /\ frame_count = ivideo.frame_count
    /\ icap' = "released"
    /\ ipc' = "done"
    /\ UNCHANGED <<ivideo, interval_seconds, frame_interval, frame_count,
                   selected_frames, interval_frames, iexception>>
    /\ UNCHANGED fixedVars
    /\ UNCHANGED <<analyzeVars, summaryVars, similarityVars, batchVars>>

InitInterval ==
    /\ IntervalInit
    /\ SamplerIdle /\ AnalyzeIdle /\ SummaryIdle /\ SimilarityIdle /\ BatchIdle

NextInterval ==
    \/ IntervalOpen
    \/ IntervalMeasure
    \/ IntervalModuloRaises
    \/ IntervalSkip
    \/ IntervalExtract
    \/ IntervalSaveFails
    \/ IntervalRelease

SpecInterval == InitInterval /\ [][NextInterval]_vars

(***************************************************************************)
(* VideoSimilarityAnalyzer (similarity_analyzer.py), called as             *)
(* analyze_video_similarities calls it (batch_processor.py:281-288): the   *)
(* holistic comparison, then the pairwise comparisons, of one list.        *)
(***************************************************************************)
\* {} : a dict without keys.
EmptyDict == <<>>

\* What process_single_video recorded for a video: a failure record, or a
\* success record whose summary succeeded or failed.
VideoKinds == {"failed", "summarized", "unsummarized"}

\* One frame result of video v, as analyze_multiple_frames_async builds it.
FrameOfVideo(v, ok) ==
    IF ok
    THEN [timestamp |-> 0, frame_path |-> <<"frame", v>>, frame_number |-> 1,
          success |-> TRUE, description |-> <<"description", v>>,
          tokens_used |-> v, model |-> "gpt-4o"]
    ELSE [timestamp |-> 0, frame_path |-> <<"frame", v>>, frame_number |-> 1,
          success |-> FALSE, error |-> "oracle error",
          description |-> <<"Error analyzing frame: ", "oracle error">>]

\* batch_processor.py:170-174, 252-261: the record of video v.
VideoResult(v, kind) ==
    LET download == [url |-> <<"url", v>>, success |-> TRUE,
                     video_path |-> <<"path", v>>,
                     info |-> [id |-> v, title |-> <<"title", v>>]]
    IN  IF kind = "failed"
        THEN download @@ [breakdown_success |-> FALSE,
                          breakdown_error |-> "Video file validation failed"]
        ELSE download @@
             [breakdown_success |-> TRUE,
              breakdown_data |->
                 [metadata |-> [video_info |-> [duration_seconds |-> v]],
                  frame_analyses |-> <<FrameOfVideo(v, kind = "summarized")>>,
                  video_summary |->
                     IF kind = "summarized"
                     THEN [success |-> TRUE, summary |-> <<"summary", v>>,
                           tokens_used |-> 100 + v, frames_analyzed |-> 1,
                           model |-> "gpt-4o"]
                     ELSE [success |-> FALSE,
                           error |-> "No successful frame analyses to summarize"]]]

VideoResultLists ==
    UNION {{[v \in 1..n |-> VideoResult(v, kinds[v])] :
              kinds \in [1..n -> VideoKinds]} : n \in 0..MaxVideos}

\* lines 56-72: the summary entry of the video at 0-based position idx.
VideoInfo(idx, video_result) ==
    LET breakdown == Get(video_result, "breakdown_data", EmptyDict)
        metadata == Get(breakdown, "metadata", EmptyDict)
        frame_analyses == Get(breakdown, "frame_analyses", <<>>)
        summary == Get(breakdown, "video_summary", EmptyDict)
        described == SelectSeq(frame_analyses,
                               LAMBDA f : Get(f, "success", FALSE))
    IN  [video_index |-> idx + 1,
         url |-> Get(video_result, "url", "Unknown"),
         title |-> Get(Get(video_result, "info", EmptyDict),
                       "title", "Unknown Title"),
         duration_analyzed |-> Get(Get(metadata, "video_info", EmptyDict),
                                   "duration_seconds", 0),
         frames_analyzed |-> Len(frame_analyses),
         summary |-> IF Get(summary, "success", FALSE)
                     THEN Get(summary, "summary", "")
                     ELSE "",
         frame_descriptions |->
             [k \in 1..Len(described) |->
                 [timestamp |-> Get(described[k], "timestamp", 0),
                  description |-> Get(described[k], "description", "")]]]

\* lines 44-76: the entries of the videos with breakdown_success, in order.
RECURSIVE prepare_from(_, _)
prepare_from(videos, idx) ==
    IF idx >= Len(videos) THEN <<>>
    ELSE IF ~Get(videos[idx + 1], "breakdown_success", FALSE)
         THEN prepare_from(videos, idx + 1)
         ELSE <<VideoInfo(idx, videos[idx + 1])>>
                 \o prepare_from(videos, idx + 1)

prepare_video_summaries(videos) == prepare_from(videos, 0)

\* A threshold of one video.
TooFewNone(summaries) == Len(summaries) < 1

\* lines 91 and 271: len(summaries) < 2
TooFew(summaries) == Len(summaries) < 2

\* lines 92-96
holistic_insufficient(summaries) ==
    [success |-> FALSE,
     error |-> "Need at least 2 successfully analyzed videos for comparison",
     videos_analyzed |-> Len(summaries)]

\* lines 272-275
pairwise_insufficient ==
    [success |-> FALSE,
     error |-> "Need at least 2 successfully analyzed videos for comparison"]

\* response.usage.total_tokens of the holistic call and of a pair's call.
HolisticTokens(summaries) == 1000 * Len(summaries)

PairTokens(a, b) == 10 * (a + 1) + (b + 1)

\* lines 113-122
holistic_return(summaries) ==
    [success |-> TRUE,
     analysis |-> <<"analysis", [k \in 1..Len(summaries) |-> summaries[k].title]>>,
     tokens_used |-> HolisticTokens(summaries),
     videos_compared |-> Len(summaries),
     video_titles |-> [k \in 1..Len(summaries) |-> summaries[k].title],
     model |-> "gpt-4o"]

\* lines 124-129
holistic_except(summaries, e) ==
    [success |-> FALSE, error |-> e, videos_compared |-> Len(summaries)]

\* An inner loop that starts at i: a video is paired with itself.
InnerStartSelf(a) == a

\* line 281: range(i + 1, len(summaries)) starts at i + 1.
InnerStart(a) == a + 1

\* lines 280-281: the loop position at or after (a, b) whose inner range is
\* not exhausted, or <<n, n>> when the loops are over.
RECURSIVE LoopPosition(_, _, _)
LoopPosition(a, b, n) ==
    IF a >= n THEN <<n, n>>
    ELSE IF b < n THEN <<a, b>>
         ELSE LoopPosition(a + 1, InnerStart(a + 1), n)

\* An oracle error that ends the loops.
AfterPairAbort(ok, a, b, n) ==
    IF ok THEN LoopPosition(a, b + 1, n) ELSE <<n, n>>

\* lines 280-281, 303-329: after the try statement of the pair (a, b), whether
\* the call returned or raised, the inner loop takes its next j.
AfterPair(ok, a, b, n) == LoopPosition(a, b + 1, n)

\* lines 312-319
comparison_return(a, b, summaries) ==
    [video1_index |-> a + 1,
     video2_index |-> b + 1,
     video1_title |-> summaries[a + 1].title,
     video2_title |-> summaries[b + 1].title,
     comparison |-> <<"comparison", summaries[a + 1].title,
                                    summaries[b + 1].title>>,
     tokens_used |-> PairTokens(a, b)]

\* lines 321-329
comparison_except(a, b, summaries, e) ==
    [video1_index |-> a + 1,
     video2_index |-> b + 1,
     video1_title |-> summaries[a + 1].title,
     video2_title |-> summaries[b + 1].title,
     comparison |-> <<"Error: ", e>>,
     tokens_used |-> 0]

\* lines 331-339
pairwise_return(cmps, summaries) ==
    [success |-> TRUE,
     pairwise_comparisons |-> cmps,
     total_pairs |-> Len(cmps),
     total_tokens_used |->
         SumSeq([k \in 1..Len(cmps) |-> Get(cmps[k], "tokens_used", 0)]),
     videos_analyzed |-> Len(summaries)]

SimilarityInit ==
    /\ video_results \in VideoResultLists
    /\ mpc = "holistic"
    /\ similarity_result = None
    /\ holistic_calls = 0
    /\ pi = 0
    /\ pj = 0
    /\ comparisons = <<>>
    /\ pair_calls = <<>>
    /\ pair_outcomes = <<>>
    /\ pairwise_result = None

\* lines 89-96: too few videos, no call.
HolisticInsufficient ==
    /\ mpc = "holistic"
    /\ TooFew(prepare_video_summaries(video_results))
    /\ similarity_result' =
          holistic_insufficient(prepare_video_summaries(video_results))
    /\ mpc' = "pairwise"
    /\ UNCHANGED <<video_results, holistic_calls, pi, pj, comparisons,
                   pair_calls, pair_outcomes, pairwise_result>>
    /\ UNCHANGED <<analyzeVars, summaryVars, samplerVars, batchVars>>

\* lines 89-111: the prompt is built and the oracle called.
HolisticCall ==
    /\ mpc = "holistic"
    /\ ~TooFew(prepare_video_summaries(video_results))
    /\ holistic_calls' = holistic_calls + 1
    /\ mpc' = "holistic_await"
    /\ UNCHANGED <<video_results, similarity_result, pi, pj, comparisons,
                   pair_calls, pair_outcomes, pairwise_result>>
    /\ UNCHANGED <<analyzeVars, summaryVars, samplerVars, batchVars>>

\* lines 113-129: the call returns or raises.
HolisticRespond ==
    /\ mpc = "holistic_await"
    /\ \E ok \in BOOLEAN :
          similarity_result' =
             IF ok THEN holistic_return(prepare_video_summaries(video_results))
             ELSE holistic_except(prepare_video_summaries(video_results),
                                  "oracle error")
    /\ mpc' = "pairwise"
    /\ UNCHANGED <<video_results, holistic_calls, pi, pj, comparisons,
                   pair_calls, pair_outcomes, pairwise_result>>
    /\ UNCHANGED <<analyzeVars, summaryVars, samplerVars, batchVars>>

\* lines 269-275: too few videos, no call.
PairwiseInsufficient ==
    /\ mpc = "pairwise"
    /\ TooFew(prepare_video_summaries(video_results))
    /\ pairwise_result' = pairwise_insufficient
    /\ mpc' = "done"
    /\ UNCHANGED <<video_results, similarity_result, holistic_calls, pi, pj,
                   comparisons, pair_calls, pair_outcomes>>
    /\ UNCHANGED <<analyzeVars, summaryVars, samplerVars, batchVars>>

\* lines 277-281: the loops are entered.
PairwiseBegin ==
    /\ mpc = "pairwise"
    /\ ~TooFew(prepare_video_summaries(video_results))
    /\ LET n == Len(prepare_video_summaries(video_results))
           pos == LoopPosition(0, InnerStart(0), n)
       IN  pi' = pos[1] /\ pj' = pos[2]
    /\ comparisons' = <<>>
    /\ mpc' = "pair_loop"
    /\ UNCHANGED <<video_results, similarity_result, holistic_calls,
                   pair_calls, pair_outcomes, pairwise_result>>
    /\ UNCHANGED <<analyzeVars, summaryVars, samplerVars, batchVars>>

\* lines 282-308: the prompt of the pair (i, j) is built, the oracle called.
PairCall ==
    /\ mpc = "pair_loop"
    /\ pi < Len(prepare_video_summaries(video_results))
    /\ pair_calls' = Append(pair_calls, <<pi, pj>>)
    /\ mpc' = "pair_await"
    /\ UNCHANGED <<video_results, similarity_result, holistic_calls, pi, pj,
                   comparisons, pair_outcomes, pairwise_result>>
    /\ UNCHANGED <<analyzeVars, summaryVars, samplerVars, batchVars>>

\* lines 310-329: the call returns or raises; the loops move on.
PairRespond ==
    /\ mpc = "pair_await"
    /\ \E ok \in BOOLEAN :
          LET summaries == prepare_video_summaries(video_results)
              pos == AfterPair(ok, pi, pj, Len(summaries))
          IN  /\ comparisons' =
                    Append(comparisons,
                           IF ok THEN comparison_return(pi, pj, summaries)
                           ELSE comparison_except(pi, pj, summaries,
                                                  "oracle error"))
              /\ pair_outcomes' = Append(pair_outcomes, ok)
              /\ pi' = pos[1]
              /\ pj' = pos[2]
    /\ mpc' = "pair_loop"
    /\ UNCHANGED <<video_results, similarity_result, holistic_calls,
                   pair_calls, pairwise_result>>
    /\ UNCHANGED <<analyzeVars, summaryVars, samplerVars, batchVars>>

\* lines 331-339: the loops are over.
PairwiseReturn ==
    /\ mpc = "pair_loop"
    /\ pi >= Len(prepare_video_summaries(video_results))
    /\ pairwise_result' =
          pairwise_return(comparisons, prepare_video_summaries(video_results))
    /\ mpc' = "done"
    /\ UNCHANGED <<video_results, similarity_result, holistic_calls, pi, pj,
                   comparisons, pair_calls, pair_outcomes>>
    /\ UNCHANGED <<analyzeVars, summaryVars, samplerVars, batchVars>>

InitSimilarity ==
    /\ SimilarityInit
    /\ AnalyzeIdle /\ SummaryIdle /\ SamplerIdle /\ IntervalIdle /\ BatchIdle

NextSimilarity ==
    \/ HolisticInsufficient
    \/ HolisticCall
    \/ HolisticRespond
    \/ PairwiseInsufficient
    \/ PairwiseBegin
    \/ PairCall
    \/ PairRespond
    \/ PairwiseReturn

SpecSimilarity == InitSimilarity /\ [][NextSimilarity]_vars

(***************************************************************************)
(* The analysis of one video's frames, then its summary.                   *)
(***************************************************************************)
(***************************************************************************)
(* BatchVideoProcessor.process_youtube_urls (batch_processor.py:59-143).   *)
(* The download of all URLs is one step, each iteration of the loop of     *)
(* line 103 is one step whose sampling, frame analysis and summary are     *)
(* given by their outcome, and the similarity analysis runs as above.      *)
(***************************************************************************)
\* Three URLs, all of them YouTube URLs.
ScenarioUrls == [k \in 1..3 |-> [id |-> k, valid |-> TRUE]]

\* The URL lists of the model: URLs are named by their position, and each is
\* a YouTube URL (valid) or not.
UrlLists ==
    UNION {{[k \in 1..n |-> [id |-> k, valid |-> v[k]]] :
              v \in [1..n -> BOOLEAN]} : n \in 0..MaxUrls}
    \cup {ScenarioUrls}

\* --max-videos (youtube_batch_analyzer.py:173-178): a limit of one video,
\* and the default of line 62.
MaxVideosValues == {1, 10}

\* --batch-size is any int (youtube_batch_analyzer.py:179-184).
BatchSizeArgs == {-1, 0, 5}

\* What the world does to the download of one URL.
DownloadOutcomes == {"ok", "no_info", "download_failed"}

\* Twenty frames, every one analysed.
ScenarioOutcomes == [k \in 1..20 |-> "ok"]

\* The oracle's outcome for each frame the sampler returned for a video.
FrameOutcomeLists ==
    {<<>>, <<"ok">>, <<"api_error">>, <<"ok", "api_error">>, ScenarioOutcomes}

\* What the world does to one video: its file does not validate, a step
\* inside the try statement raises, or the sampler returns frames and the
\* oracle answers or fails for each of them and for the summary.  The
\* summary fails only after a single analysed frame.
ProcessFates ==
    {[kind |-> "validation_failed"], [kind |-> "raises"]}
    \cup {[kind |-> "frames", outcomes |-> o, summary |-> "ok"] :
             o \in FrameOutcomeLists}
    \cup {[kind |-> "frames", outcomes |-> <<"ok">>, summary |-> "api_error"]}

\* The summary call is made for some frame analysed with success.
SummaryCalled(fate, bs) ==
    /\ fate.kind = "frames"
    /\ bs > 0
    /\ \E k \in 1..Len(fate.outcomes) : fate.outcomes[k] = "ok"

\* youtube_utils.py:147-165
validate_urls(us) ==
    <<SelectSeq(us, LAMBDA u : u.valid), SelectSeq(us, LAMBDA u : ~u.valid)>>

\* youtube_utils.py:270-272: valid_urls[:max_videos], for max_videos >= 0.
LimitUrls(valid_urls, mv) ==
    IF Len(valid_urls) > mv THEN SubSeq(valid_urls, 1, mv) ELSE valid_urls

\* youtube_utils.py:279-305: the result for one URL.
DownloadResult(url, o) ==
    IF o = "no_info"
    THEN [url |-> url, success |-> FALSE,
          error |-> "Failed to get video info",
          video_path |-> None, info |-> None]
    ELSE LET result == [url |-> url, success |-> o = "ok",
                        video_path |-> IF o = "ok" THEN <<"path", url.id>>
                                       ELSE None,
                        info |-> [id |-> url.id, title |-> <<"title", url.id>>],
                        duration_limited_to |-> "duration_seconds"]
         IN  IF o = "ok" THEN result
             ELSE [error |-> "Download failed"] @@ result

\* youtube_utils.py:249-315
download_multiple_videos(us, mv, outs) ==
    LET valid_urls == LimitUrls(validate_urls(us)[1], mv)
    IN  [k \in 1..Len(valid_urls) |-> DownloadResult(valid_urls[k], outs[k])]

\* line 91
successful_downloads_of(results_) == SelectSeq(results_, LAMBDA r : r.success)

\* lines 93-97
no_downloads_return(results_) ==
    [success |-> FALSE,
     error |-> "No videos were successfully downloaded",
     download_results |-> results_]

\* The (timestamp, frame_path) pairs the sampler returned: one per outcome.
ExtractedFrames(outcomes) == [k \in 1..Len(outcomes) |-> <<k, FramePath(k)>>]

\* gpt_utils.py:164-220: what the coroutine of one frame returns.
analyze_frame_async(frame_path, o) ==
    IF encode_image_to_base64(o).raised
    THEN analyze_frame_except(encode_image_to_base64(o).error)
    ELSE analyze_frame_resume(frame_path, o)

\* gpt_utils.py:222-274, the whole call: range() raises for a step of 0 and
\* is empty for a negative step; otherwise one result per frame, in order.
analyze_multiple_frames(frames, bs, outcomes) ==
    IF bs = 0
    THEN [raised |-> TRUE, error |-> "range() arg 3 must not be zero"]
    ELSE IF bs < 0 /\ Len(frames) > 0
         THEN [raised |-> FALSE, value |-> <<>>]
         ELSE [raised |-> FALSE,
               value |-> [k \in 1..Len(frames) |->
                   MakeResult(<<frames[k][1], frames[k][2], k - 1>>,
                              analyze_frame_async(frames[k][2],
                                                  outcomes[k]).value)]]

\* gpt_utils.py:276-366, the whole call.
generate_comprehensive_summary(frame_analyses, o) ==
    IF successful_descriptions(frame_analyses) = <<>>
    THEN summary_no_frames
    ELSE IF o = "ok"
         THEN summary_return(successful_descriptions(frame_analyses)).value
         ELSE summary_except(ErrorText(o)).value

\* Every frame result counted, successful or not.
successful_analyses_all(frame_analyses) == Len(frame_analyses)

\* line 217
successful_analyses_of(frame_analyses) ==
    Len(SelectSeq(frame_analyses, LAMBDA r : r.success))

\* lines 218-220
video_total_tokens(frame_analyses, summary) ==
    LET ok == SelectSeq(frame_analyses, LAMBDA r : r.success)
    IN  SumSeq([k \in 1..Len(ok) |-> Get(ok[k], "tokens_used", 0)])
        + (IF Get(summary, "success", FALSE)
           THEN Get(summary, "tokens_used", 0) ELSE 0)

\* A failure record in place of the success record.
breakdown_return_failed(download, frames, analyses, summary, bs, index) ==
    [raised |-> FALSE,
     value |-> [breakdown_success |-> FALSE,
                breakdown_error |-> "Analysis failed"] @@ download]

\* lines 222-261: the success record.
breakdown_return(download, frames, analyses, summary, bs, index) ==
    [raised |-> FALSE,
     value |->
        [breakdown_success |-> TRUE,
         breakdown_data |->
            [metadata |->
                [video_info |->
                    [duration_seconds |-> download.info.id],
                 youtube_info |-> download.info,
                 processing_settings |->
                    [total_frames_extracted |-> Len(frames),
                     successful_analyses |->
                        successful_analyses_of(analyses),
                     batch_size |-> bs,
                     model_used |-> "gpt-4o",
                     total_tokens_used |->
                        video_total_tokens(analyses, summary)]],
             frame_analyses |-> analyses,
             video_summary |-> summary],
         breakdown_path |-> <<"breakdown", index,
                                           download.info.id>>,
         frames_extracted |-> Len(frames),
         frames_analyzed |-> successful_analyses_of(analyses),
         total_tokens |-> video_total_tokens(analyses, summary),
         video_index |-> index] @@ download]

\* lines 170-174, 193-197: a failure record returned inside the try.
breakdown_failure(download_result, e) ==
    [raised |-> FALSE,
     value |-> [breakdown_success |-> FALSE, breakdown_error |-> e]
                  @@ download_result]

\* No except clause: the exception leaves process_single_video.
process_single_video_reraise(download_result, e) ==
    [raised |-> TRUE, error |-> e]

\* lines 263-269: except Exception as e.
process_single_video_except(download_result, e) ==
    [raised |-> FALSE,
     value |-> [breakdown_success |-> FALSE, breakdown_error |-> e]
                  @@ download_result]

\* lines 145-269
process_single_video(download_result, fate, bs, video_index) ==
    IF fate.kind = "validation_failed"
    THEN breakdown_failure(download_result, "Video file validation failed")
    ELSE IF fate.kind = "raises"
    THEN process_single_video_except(download_result,
                                     "float division by zero")
    ELSE IF fate.outcomes = <<>>
    THEN breakdown_failure(download_result, "No frames were extracted")
    ELSE LET frames == ExtractedFrames(fate.outcomes)
             analysed == analyze_multiple_frames(frames, bs, fate.outcomes)
         IN  IF analysed.raised
             THEN process_single_video_except(download_result,
                                              analysed.error)
             ELSE breakdown_return(
                     download_result, frames, analysed.value,
                     generate_comprehensive_summary(analysed.value,
                                                    fate.summary),
                     bs, video_index)

\* The tokens of the pairwise comparisons alone.
similarity_tokens_pairwise(holistic, pairwise) ==
    Get(pairwise, "total_tokens_used", 0)

\* lines 294-297
similarity_tokens(holistic, pairwise) ==
    Get(holistic, "tokens_used", 0) + Get(pairwise, "total_tokens_used", 0)

\* A failed comparison fails the whole similarity analysis.
combined_result_strict(holistic, pairwise) ==
    IF Get(holistic, "success", FALSE) /\ Get(pairwise, "success", FALSE)
    THEN [comprehensive_analysis |-> holistic,
          pairwise_comparisons |-> pairwise,
          total_tokens_used |-> similarity_tokens(holistic, pairwise)]
    ELSE [success |-> FALSE, error |-> "similarity analysis failed"]

\* lines 290-304: what analyze_video_similarities returns.
combined_result(holistic, pairwise) ==
    [comprehensive_analysis |-> holistic,
     pairwise_comparisons |-> pairwise,
     total_tokens_used |-> similarity_tokens(holistic, pairwise)]

\* line 352: 0.000015 dollars per token, as a fraction.
CostPerToken == <<15, 1000000>>

\* lines 330-363
generate_final_report(downloads, videos, similarity) ==
    LET successful_videos ==
            SelectSeq(videos, LAMBDA r : Get(r, "breakdown_success", FALSE))
        total_tokens_used ==
            SumSeq([k \in 1..Len(successful_videos) |->
                       Get(successful_videos[k], "total_tokens", 0)])
            + Get(similarity, "total_tokens_used", 0)
    IN  [summary |->
            [total_urls_provided |-> Len(downloads),
             successful_downloads |-> Len(successful_downloads_of(downloads)),
             successful_analyses |-> Len(successful_videos),
             total_frames_extracted |->
                SumSeq([k \in 1..Len(successful_videos) |->
                           Get(successful_videos[k], "frames_extracted", 0)]),
             total_frames_analyzed |->
                SumSeq([k \in 1..Len(successful_videos) |->
                           Get(successful_videos[k], "frames_analyzed", 0)]),
             total_tokens_used |-> total_tokens_used,
             estimated_cost_usd |->
                RatMul(RatOfInt(total_tokens_used), CostPerToken)],
         download_results |-> downloads,
         video_analyses |-> videos,
         similarity_analysis |-> similarity,
         video_titles |->
            [k \in 1..Len(successful_videos) |->
                Get(Get(successful_videos[k], "info", EmptyDict),
                    "title", "Unknown")]]

\* One executed stage: its name, the video it worked on (0 for the stages of
\* the whole batch) and the oracle calls it made.
StageEvent(stage, video_id, calls) ==
    [stage |-> stage, video |-> video_id, calls |-> calls]

\* The downloads made from the last URL to the first.
DownloadStagesReversed(downloaded) ==
    [k \in 1..Len(downloaded) |->
        StageEvent("download",
                   downloaded[Len(downloaded) + 1 - k].url.id, 0)]

\* youtube_utils.py:274-305: one download per URL, in order, before
\* download_multiple_videos returns.
DownloadStages(downloaded) ==
    [k \in 1..Len(downloaded) |->
        StageEvent("download", downloaded[k].url.id, 0)]

\* gpt_utils.py:238-248, 192-201: the chat.completions.create calls of one
\* analyze_multiple_frames_async call, one per frame whose image was read.
FrameOracleCalls(outcomes, bs) ==
    IF bs <= 0 THEN 0
    ELSE Cardinality({k \in 1..Len(outcomes) : outcomes[k] # "missing"})

\* gpt_utils.py:294-298, 331: the summary's call, unless no frame succeeded.
SummaryOracleCalls(frame_analyses) ==
    IF successful_descriptions(frame_analyses) = <<>> THEN 0 ELSE 1

\* The same stages with the summary requested twice.
AnalysisStagesTwice(id, fate, bs) ==
    <<StageEvent("analyze", id, FrameOracleCalls(fate.outcomes, bs)),
      StageEvent("summarize", id, 1), StageEvent("summarize", id, 1),
      StageEvent("persist", id, 0)>>

\* The stages of lines 200-247: analysis, summary, breakdown file.
AnalysisStages(id, fate, bs) ==
    LET frames == ExtractedFrames(fate.outcomes)
        analysed == analyze_multiple_frames(frames, bs, fate.outcomes)
        analyze == StageEvent("analyze", id,
                              FrameOracleCalls(fate.outcomes, bs))
    IN  IF analysed.raised THEN <<analyze>>
        ELSE <<analyze,
               StageEvent("summarize", id,
                          SummaryOracleCalls(analysed.value)),
               StageEvent("persist", id, 0)>>

\* batch_processor.py:168-247: the stages process_single_video executes.
\* An exception is raised by get_video_info or extract_fixed_frames.
VideoStages(download_result, fate, bs) ==
    LET id == download_result.info.id
        validate == StageEvent("validate", id, 0)
        sample == StageEvent("sample", id, 0)
    IN  IF fate.kind = "validation_failed" THEN <<validate>>
        ELSE IF fate.kind = "raises" \/ fate.outcomes = <<>>
        THEN <<validate, sample>>
        ELSE <<validate, sample>> \o AnalysisStages(id, fate, bs)

\* The loop of line 103 ends after its first iteration.
LoopEndedEarly(n, downloads) == n >= 1

\* batch_processor.py:103-117: the loop over successful_downloads is over.
LoopEnded(n, downloads) == n = Len(successful_downloads_of(downloads))

\* youtube_batch_analyzer.py:268, 285-287: main reports the run as failed
\* unless the result has a true 'success' or a 'summary'.
ReportsFailure(result) ==
    ~(Get(result, "success", FALSE) \/ "summary" \in DOMAIN result)

BatchInit ==
    /\ urls \in UrlLists
    /\ max_videos \in MaxVideosValues
    /\ batch_size_arg \in BatchSizeArgs
    /\ bpc = "download"
    /\ download_log = <<>>
    /\ download_results = <<>>
    /\ vi = 0
    /\ process_log = <<>>
    /\ saved_report = None
    /\ batch_return = None
    /\ stage_log = <<>>

\* lines 85-99: every URL is downloaded; with no download the call returns.
DownloadVideos ==
    /\ bpc = "download"
    /\ \E outs \in [1..Len(LimitUrls(validate_urls(urls)[1], max_videos))
                      -> DownloadOutcomes] :
          LET downloaded == download_multiple_videos(urls, max_videos, outs)
          IN  /\ download_log' = outs
              /\ download_results' = downloaded
              /\ stage_log' = stage_log \o DownloadStages(downloaded)
              /\ IF successful_downloads_of(downloaded) = <<>>
                 THEN /\ batch_return' = no_downloads_return(downloaded)
                      /\ bpc' = "done"
                 ELSE /\ batch_return' = batch_return
                      /\ bpc' = "process"
    /\ UNCHANGED <<urls, max_videos, batch_size_arg, vi, process_log,
                   saved_report>>
    /\ UNCHANGED <<analyzeVars, summaryVars, samplerVars, similarityVars>>

\* lines 103-115: one iteration of the loop over successful_downloads.
ProcessVideo ==
    /\ bpc = "process"
    /\ vi < Len(successful_downloads_of(download_results))
    /\ \E fate \in ProcessFates :
          /\ (fate.kind = "frames" /\ fate.summary # "ok")
                => SummaryCalled(fate, batch_size_arg)
          /\ LET download_result ==
                     successful_downloads_of(download_results)[vi + 1]
                 ended == process_single_video(download_result, fate,
                                               batch_size_arg, vi + 1)
             IN  /\ process_log' = Append(process_log, fate)
                 /\ stage_log' = stage_log \o
                       VideoStages(download_result, fate, batch_size_arg)
                 /\ IF ended.raised
                    THEN bpc' = "raised" /\ video_results' = video_results
                    ELSE /\ bpc' = bpc
                         /\ video_results' =
                               Append(video_results, ended.value)
    /\ vi' = vi + 1
    /\ UNCHANGED <<urls, max_videos, batch_size_arg, download_log,
                   download_results, saved_report, batch_return>>
    /\ UNCHANGED <<mpc, similarity_result, holistic_calls, pi, pj,
                   comparisons, pair_calls, pair_outcomes, pairwise_result>>
    /\ UNCHANGED <<analyzeVars, summaryVars, samplerVars>>

\* lines 117-119, 281-284: the loop is over, the similarity analysis starts.
StartSimilarity ==
    /\ bpc = "process"
    /\ LoopEnded(vi, download_results)
    /\ bpc' = "similarity"
    /\ mpc' = "holistic"
    /\ stage_log' = Append(stage_log, StageEvent("similarity", 0, 0))
    /\ UNCHANGED <<urls, max_videos, batch_size_arg, download_log,
                   download_results, vi, process_log, saved_report,
                   batch_return>>
    /\ UNCHANGED <<video_results, similarity_result, holistic_calls, pi, pj,
                   comparisons, pair_calls, pair_outcomes, pairwise_result>>
    /\ UNCHANGED <<analyzeVars, summaryVars, samplerVars>>

\* lines 290-304, 121-143: the comparisons are combined, the report is
\* generated, saved and returned.
FinishReport ==
    /\ bpc = "similarity"
    /\ mpc = "done"
    /\ LET final_report ==
              generate_final_report(
                 download_results, video_results,
                 combined_result(similarity_result, pairwise_result))
       IN  /\ saved_report' = final_report
           /\ batch_return' = final_report
    /\ stage_log' = Append(stage_log, StageEvent("report", 0, 0))
    /\ bpc' = "done"
    /\ UNCHANGED <<urls, max_videos, batch_size_arg, download_log,
                   download_results, vi, process_log>>
    /\ UNCHANGED <<analyzeVars, summaryVars, samplerVars, similarityVars>>

InitBatch ==
    /\ BatchInit
    /\ AnalyzeIdle /\ SummaryIdle /\ SamplerIdle /\ IntervalIdle
    /\ SimilarityIdle

NextBatch ==
    \/ DownloadVideos
    \/ ProcessVideo
    \/ StartSimilarity
    \/ HolisticInsufficient
    \/ HolisticCall
    \/ HolisticRespond
    \/ PairwiseInsufficient
    \/ PairwiseBegin
    \/ PairCall
    \/ PairRespond
    \/ PairwiseReturn
    \/ FinishReport

SpecBatch == InitBatch /\ [][NextBatch]_vars

Init ==
    /\ AnalyzeInit /\ SummaryInit
    /\ SamplerIdle /\ IntervalIdle /\ SimilarityIdle /\ BatchIdle

Next ==
    \/ RangeError
    \/ StartBatch
    \/ \E k \in DOMAIN task_state : TaskStart(k)
    \/ \E k \in DOMAIN task_state : OracleRespond(k)
    \/ GatherReturn
    \/ Return
    \/ SummaryEmpty
    \/ SummaryCall
    \/ SummaryRespond

Spec == Init /\ [][Next]_vars

(***************************************************************************)
(* Properties of analyze_multiple_frames_async.                            *)
(***************************************************************************)
InFlight == {k \in DOMAIN task_state : task_state[k] = "inflight"}

Failed == {k \in 1..Len(frame_data) : outcome[k] # "ok"}

\* The dict analyze_frame_async owes position k, from frame k and what the
\* world did to frame k alone.
ExpectedAnalysis(k) ==
    IF outcome[k] = "ok"
    THEN [success |-> TRUE,
          description |-> <<"description", frame_data[k][2]>>,
          tokens_used |-> frame_data[k][2][2],
          model |-> "gpt-4o"]
    ELSE [success |-> FALSE,
          error |-> ErrorText(outcome[k]),
          description |-> <<"Error analyzing frame: ", ErrorText(outcome[k])>>]

\* Result k carries the timestamp and path of input frame k, the number k,
\* and the outcome of the call made for frame k.
ResultsInInputOrder ==
    /\ Len(results) = Len(frame_data)
    /\ \A k \in 1..Len(results) :
          /\ results[k].timestamp = frame_data[k][1]
          /\ results[k].frame_path = frame_data[k][2]
          /\ results[k].frame_number = k
          /\ results[k].success = (outcome[k] = "ok")
          /\ results[k].success =>
                results[k].description = <<"description", frame_data[k][2]>>

\* C1 as stated: for any frame list and ANY batch size, the call returns
\* exactly N results in input order.
C1_AnyBatchSize == pc = "done" => ResultsInInputOrder

\* C1 (amended): for any frame list and any batch size >= 1, the call
\* returns (it does not raise), and it returns exactly N results in input
\* order: result k carries the timestamp and path of frame k, frame_number k
\* and the outcome of frame k's call, whatever the order in which the calls
\* of a chunk completed.
C1_ResultsInInputOrder ==
    batch_size >= 1 =>
        /\ pc # "raised"
        /\ pc = "done" => ResultsInInputOrder

\* Two calls of one chunk completed in the reverse of their input order and
\* the call has returned.
C1_Witness ==
    /\ pc = "done"
    /\ batch_size >= 2
    /\ Len(results) >= 3
    /\ \E a, b \in 1..Len(completion_order) :
          /\ a < b
          /\ completion_order[a] > completion_order[b]
          /\ completion_order[a] \div batch_size
                = completion_order[b] \div batch_size

\* C2: a failure of the analysis of frame k (missing image, oracle error,
\* malformed response) becomes a success:false result with an error message
\* at position k only: no exception leaves a coroutine or the call, no
\* sibling call is cancelled or abandoned, and every position holds the
\* result determined by its own frame and its own outcome alone.
C2_FailureIsolated ==
    /\ \A k \in DOMAIN task_state :
          task_state[k] = "done" =>
             /\ ~task_result[k].raised
             /\ outcome[k + 1] # "ok" =>
                   /\ task_result[k].value.success = FALSE
                   /\ "error" \in DOMAIN task_result[k].value
    /\ pc = "raised" => \A k \in DOMAIN task_state : task_state[k] = "none"
    /\ pc \in {"loop", "done"} =>
          \A k \in DOMAIN task_state : task_state[k] \in {"none", "done"}
    /\ \A j \in 1..Len(results) :
          /\ task_state[j - 1] = "done"
          /\ results[j] = ExpectedAnalysis(j)
                            @@ [timestamp |-> frame_data[j][1],
                                frame_path |-> frame_data[j][2],
                                frame_number |-> j]

\* A frame failed before a sibling of its chunk had completed, and the
\* sibling's result is a success at its own position.
C2_Witness ==
    /\ pc = "done"
    /\ batch_size >= 2
    /\ \E a, b \in 1..Len(completion_order) :
          LET k == completion_order[a]
              m == completion_order[b]
          IN  /\ a < b
              /\ k \div batch_size = m \div batch_size
              /\ outcome[k + 1] = "api_error"
              /\ outcome[m + 1] = "ok"
              /\ ~results[k + 1].success
              /\ results[m + 1].success

\* C3: the number of oracle calls in flight never exceeds batch_size, and no
\* call of a later chunk is started before every call of each earlier chunk
\* has completed.
C3_ChunkBarrier ==
    /\ Cardinality(InFlight) <= (IF batch_size > 0 THEN batch_size ELSE 0)
    /\ \A k, m \in DOMAIN task_state :
          (/\ batch_size >= 1
           /\ m \div batch_size > k \div batch_size
           /\ task_state[m] \in {"inflight", "done"})
          => task_state[k] = "done"

\* A full second chunk is in flight after the first chunk has completed.
C3_Witness ==
    /\ batch_size >= 2
    /\ i > 0
    /\ Cardinality(InFlight) = batch_size
    /\ \A k \in 0..(i - 1) : task_state[k] = "done"

(***************************************************************************)
(* Properties of generate_comprehensive_summary.                           *)
(***************************************************************************)
Successful == {k \in 1..Len(results) : results[k].success}

\* C7: called with a list in which no result is successful (all failed, or
\* empty), the summary returns success:false and makes no oracle call.
C7_NoSuccessNoCall ==
    (pc = "done" /\ Successful = {}) =>
        /\ summary_calls = 0
        /\ spc \in {"idle", "done"}
        /\ spc = "done" => /\ video_summary.success = FALSE
                           /\ "error" \in DOMAIN video_summary

\* The summary has returned for a list of two or more results, all failed.
C7_Witness ==
    /\ spc = "done"
    /\ Len(results) >= 2
    /\ Successful = {}
    /\ video_summary.success = FALSE

\* C8: the summary is built from exactly the successful frame results, in
\* input order; when it succeeds, frames_analyzed is the number of
\* successful results; when the oracle call fails, it returns success:false
\* with an error message and does not raise.
C8_SummaryOfSuccessful ==
    /\ spc # "raised"
    /\ summary_calls <= 1
    /\ summary_calls = 1 =>
          /\ Len(summary_prompt) = Cardinality(Successful)
          /\ \A m \in 1..Len(summary_prompt) :
                LET k == SortedSeq(Successful)[m]
                IN  summary_prompt[m] = <<k, frame_data[k][1],
                                          <<"description", frame_data[k][2]>>>>
    /\ spc = "done" =>
          /\ video_summary.success = (summary_outcome = "ok")
          /\ video_summary.success =>
                /\ video_summary.frames_analyzed = Cardinality(Successful)
                /\ Successful # {}
          /\ summary_outcome \in {"api_error", "malformed"} =>
                /\ video_summary.error = ErrorText(summary_outcome)
                /\ summary_calls = 1

\* A summary succeeded over a list with a failed result between two
\* successful ones.
C8_Witness ==
    /\ spc = "done"
    /\ video_summary.success
    /\ \E a, b, c \in 1..Len(results) :
          /\ a < b /\ b < c
          /\ results[a].success /\ ~results[b].success /\ results[c].success

\* The oracle call of a summary failed.
C8_WitnessOracleFailure ==
    /\ spc = "done"
    /\ summary_outcome = "api_error"
    /\ Successful # {}

(***************************************************************************)
(* Properties of extract_fixed_frames.                                     *)
(***************************************************************************)
Selected == xpc \in {"loop", "done"}

StrictlyIncreasing(s) == \A a, b \in 1..Len(s) : a < b => s[a] < s[b]

TimestampsIncrease ==
    \A a, b \in 1..Len(extracted_frames) :
        a < b => RatLess(extracted_frames[a][1], extracted_frames[b][1])

\* The ordinal in the file name of each returned frame is its position.
OrdinalsContiguous ==
    \A k \in 1..Len(extracted_frames) : extracted_frames[k][2][2] = k

C5_DenseSelection ==
    (Selected /\ analysis_frames <= max_frames) =>
        /\ Len(frame_indices) = analysis_frames
        /\ \A k \in 1..Len(frame_indices) : frame_indices[k] = k - 1
        /\ (xpc = "done" /\ faults = 0) =>
              Len(extracted_frames) = analysis_frames

\* A dense extraction of two or more frames, fewer than maxFrames, returned.
C5_Witness ==
    /\ xpc = "done"
    /\ analysis_frames >= 2
    /\ analysis_frames < max_frames
    /\ Len(extracted_frames) = analysis_frames

\* frameRate * min(videoDuration, maxDurationSeconds), rounded down: the
\* whole video when it is shorter than the window, else the window.
ExpectedAnalysisFrames ==
    IF video.frame_count * video.fps[2] <= max_duration * video.fps[1]
    THEN video.frame_count
    ELSE (video.fps[1] * max_duration) \div video.fps[2]

\* C6: in the sparse branch the selected indices are exactly
\* floor(i * analysisFrameCount / maxFrames) for i = 0..maxFrames-1, with
\* analysisFrameCount = floor(frameRate * min(videoDuration, maxDuration)),
\* each in [0, analysisFrameCount); a 5 s video at 10 frames per second with
\* maxDuration 20 and maxFrames 20 gives analysisFrameCount 50 and the 20
\* indices 0, 2, 5, 7, 10, ...
C6_SparseIndices ==
    Selected =>
        /\ analysis_frames = ExpectedAnalysisFrames
        /\ analysis_frames > max_frames =>
              /\ DOMAIN frame_indices = 1..Max(max_frames, 0)
              /\ \A k \in DOMAIN frame_indices :
                    /\ frame_indices[k] * max_frames
                          <= (k - 1) * analysis_frames
                    /\ (k - 1) * analysis_frames
                          < (frame_indices[k] + 1) * max_frames
                    /\ frame_indices[k] >= 0
                    /\ frame_indices[k] < analysis_frames
        /\ (video = ScenarioVideo /\ max_frames = 20 /\ max_duration = 20) =>
              /\ analysis_frames = 50
              /\ frame_indices = <<0, 2, 5, 7, 10, 12, 15, 17, 20, 22,
                                   25, 27, 30, 32, 35, 37, 40, 42, 45, 47>>

\* The 5 s video at 10 frames per second has been sampled.
C6_Witness ==
    /\ xpc = "done"
    /\ video = ScenarioVideo
    /\ max_frames = 20
    /\ max_duration = 20
    /\ Len(extracted_frames) = 20

(***************************************************************************)
(* Similarity claims, checked under SpecSimilarity.                        *)
(***************************************************************************)
\* The videos recorded as successfully processed, in the order supplied.
SuccessfulVideos ==
    SelectSeq(video_results, LAMBDA r : Get(r, "breakdown_success", FALSE))

InsufficientError ==
    "Need at least 2 successfully analyzed videos for comparison"

\* C9: when fewer than two successfully processed videos are supplied, the
\* holistic comparison and the pairwise comparison each return a failure that
\* reports insufficient videos, and neither calls the oracle.
C9_InsufficientVideos ==
    Len(SuccessfulVideos) < 2 =>
        /\ holistic_calls = 0
        /\ pair_calls = <<>>
        /\ comparisons = <<>>
        /\ mpc \in {"holistic", "pairwise", "done"}
        /\ mpc \in {"pairwise", "done"} =>
              /\ similarity_result.success = FALSE
              /\ similarity_result.error = InsufficientError
        /\ mpc = "done" =>
              /\ pairwise_result.success = FALSE
              /\ pairwise_result.error = InsufficientError

\* Both comparisons have returned for a list of several videos of which
\* exactly one was successfully processed.
C9_Witness ==
    /\ mpc = "done"
    /\ Len(video_results) >= 2
    /\ Len(SuccessfulVideos) = 1
    /\ similarity_result.success = FALSE
    /\ pairwise_result.success = FALSE

\* The pairs (a, b), 1 <= a < b <= m, in nested ascending order.
RECURSIVE PairsInOrder(_, _, _)
PairsInOrder(a, b, m) ==
    IF a >= m THEN <<>>
    ELSE IF b > m THEN PairsInOrder(a + 1, a + 2, m)
         ELSE <<<<a, b>>>> \o PairsInOrder(a, b + 1, m)

\* C10: with M >= 2 successfully processed videos the pairwise comparison
\* returns exactly M(M-1)/2 comparisons, one per unordered pair (i, j), i < j,
\* of the successful videos in their supplied order, listed in nested
\* ascending order, with no pair repeated and no video paired with itself.
C10_AllPairsInOrder ==
    (mpc = "done" /\ Len(SuccessfulVideos) >= 2) =>
        LET m == Len(SuccessfulVideos)
            cmps == pairwise_result.pairwise_comparisons
            expected == PairsInOrder(1, 2, m)
        IN  /\ pairwise_result.success = TRUE
            /\ Len(cmps) = (m * (m - 1)) \div 2
            /\ pairwise_result.total_pairs = (m * (m - 1)) \div 2
            /\ Len(expected) = Len(cmps)
            /\ \A k \in 1..Len(cmps) :
                  /\ cmps[k].video1_index = expected[k][1]
                  /\ cmps[k].video2_index = expected[k][2]
                  /\ cmps[k].video1_index < cmps[k].video2_index
                  /\ cmps[k].video1_title =
                        SuccessfulVideos[expected[k][1]].info.title
                  /\ cmps[k].video2_title =
                        SuccessfulVideos[expected[k][2]].info.title
            /\ \A k, l \in 1..Len(cmps) :
                  k # l =>
                     <<cmps[k].video1_index, cmps[k].video2_index>> #
                     <<cmps[l].video1_index, cmps[l].video2_index>>

\* Three successful videos with a failed one between them have been compared:
\* three comparisons, one of which reports an oracle error.
C10_Witness ==
    /\ mpc = "done"
    /\ Len(video_results) = 4
    /\ Len(SuccessfulVideos) = 3
    /\ ~Get(video_results[2], "breakdown_success", FALSE)
    /\ pairwise_result.success = TRUE
    /\ Len(pairwise_result.pairwise_comparisons) = 3
    /\ \E k \in 1..3 : pairwise_result.pairwise_comparisons[k].tokens_used = 0

\* C11: in generate_pairwise_comparisons an oracle error for one pair yields,
\* for that pair only, an entry whose comparison text is "Error: <message>"
\* with tokens_used 0; every other pair is still called and its entry is that
\* of its own answer, and the overall result is returned with success.
C11_PairErrorIsolated ==
    /\ Len(pair_outcomes) = Len(comparisons)
    /\ \A k \in 1..Len(comparisons) :
          LET a == pair_calls[k][1] + 1
              b == pair_calls[k][2] + 1
              entry == comparisons[k]
          IN  /\ entry.video1_index = a
              /\ entry.video2_index = b
              /\ entry.video1_title = SuccessfulVideos[a].info.title
              /\ entry.video2_title = SuccessfulVideos[b].info.title
              /\ pair_outcomes[k] =>
                    /\ entry.comparison =
                          <<"comparison", SuccessfulVideos[a].info.title,
                                          SuccessfulVideos[b].info.title>>
                    /\ entry.tokens_used = PairTokens(a - 1, b - 1)
              /\ ~pair_outcomes[k] =>
                    /\ entry.comparison = <<"Error: ", "oracle error">>
                    /\ entry.tokens_used = 0
    /\ (mpc = "done" /\ Len(SuccessfulVideos) >= 2) =>
          LET m == Len(SuccessfulVideos)
          IN  /\ Len(pair_calls) = (m * (m - 1)) \div 2
              /\ pairwise_result.success = TRUE
              /\ pairwise_result.pairwise_comparisons = comparisons
              /\ pairwise_result.total_tokens_used =
                    SumSeq([k \in 1..Len(comparisons) |->
                               IF pair_outcomes[k]
                               THEN PairTokens(pair_calls[k][1],
                                               pair_calls[k][2])
                               ELSE 0])

\* Three videos have been compared; the oracle failed on the first pair only,
\* and the two later pairs were called and answered.
C11_Witness ==
    /\ mpc = "done"
    /\ Len(SuccessfulVideos) = 3
    /\ pair_outcomes = <<FALSE, TRUE, TRUE>>
    /\ pairwise_result.success = TRUE
    /\ pairwise_result.total_pairs = 3

(***************************************************************************)
(* Frame Sampler: failures and invalid input, under SpecSampler.           *)
(***************************************************************************)
\* C18: for any pattern of decode or save failures the returned collection
\* has the ordinal in each file name equal to the frame's 1-based position
\* (ordinals contiguous from 1), strictly increasing timestamps, and at most
\* max_frames frames.
C18_CollectionInvariant ==
    (xpc = "done" /\ max_frames > 0) =>
        /\ OrdinalsContiguous
        /\ TimestampsIncrease
        /\ Len(extracted_frames) <= max_frames

\* C19: for a video with zero frames or zero frame rate the sampler fails
\* with an explicit cannot-open/measure error before any index is selected:
\* it neither goes on to select and return a frame list nor fails with an
\* arithmetic error.
C19_ExplicitMeasureError ==
    (/\ video # None
     /\ video.opens
     /\ (video.fps[1] = 0 \/ video.frame_count = 0)
     /\ xpc \notin {"open", "measure"}) =>
        /\ xpc = "raised"
        /\ exception.type # "ZeroDivisionError"
        /\ frame_indices = <<>>

\* C20: max_frames <= 0 is invalid input: the call is rejected with an error,
\* it never goes through the sampling loop and returns a frame list.
C20_RejectsNonPositiveMax ==
    (xpc # "idle" /\ max_frames <= 0) => xpc \notin {"loop", "done"}

(***************************************************************************)
(* Batch claims, checked under SpecBatch.                                  *)
(***************************************************************************)
SuccessfulDownloads == successful_downloads_of(download_results)

\* The videos of the batch that ended with a success record.
ProcessedVideos ==
    SelectSeq(video_results, LAMBDA r : Get(r, "breakdown_success", FALSE))

\* The world makes the processing of a video fail: validation, an exception,
\* no frame extracted, or a batch size range() rejects.
FateFails(fate) ==
    \/ fate.kind \in {"validation_failed", "raises"}
    \/ fate.outcomes = <<>>
    \/ batch_size_arg = 0

\* C12: a failure of one video at download, validation or sampling yields a
\* failure record for that video only and never aborts the batch: every
\* other video is processed to its own terminal record, and when at least two
\* succeed, summaries and similarity results are produced for them.
C12_VideoFailureIsolated ==
    /\ bpc # "raised"
    /\ Len(download_results) = Len(download_log)
    /\ \A k \in 1..Len(download_results) :
          /\ download_results[k].success = (download_log[k] = "ok")
          /\ download_log[k] # "ok" =>
                download_results[k].error
                   \in {"Failed to get video info", "Download failed"}
    /\ Len(video_results) = Len(process_log)
    /\ \A j \in 1..Len(video_results) :
          /\ video_results[j].url = SuccessfulDownloads[j].url
          /\ video_results[j].breakdown_success = ~FateFails(process_log[j])
          /\ FateFails(process_log[j]) =>
                "breakdown_error" \in DOMAIN video_results[j]
          /\ ~FateFails(process_log[j]) =>
                /\ video_results[j].frames_extracted =
                      Len(process_log[j].outcomes)
                /\ "video_summary" \in
                      DOMAIN video_results[j].breakdown_data
    /\ (bpc \in {"similarity", "done"} /\ SuccessfulDownloads # <<>>) =>
          Len(video_results) = Len(SuccessfulDownloads)
    /\ (bpc = "done" /\ Len(ProcessedVideos) >= 2) =>
          LET m == Len(ProcessedVideos)
              similarity == batch_return.similarity_analysis
          IN  /\ batch_return.video_analyses = video_results
              /\ holistic_calls = 1
              /\ "comprehensive_analysis" \in DOMAIN similarity
              /\ similarity.pairwise_comparisons.success = TRUE
              /\ similarity.pairwise_comparisons.total_pairs =
                    (m * (m - 1)) \div 2

\* Of three downloaded videos the first raised inside process_single_video;
\* the two after it were processed with success and compared.
C12_Witness ==
    /\ bpc = "done"
    /\ download_log = <<"ok", "ok", "ok">>
    /\ process_log[1].kind = "raises"
    /\ Len(ProcessedVideos) = 2
    /\ batch_return.similarity_analysis.pairwise_comparisons.total_pairs = 1

\* C13: process_youtube_urls reports an overall run failure if and only if
\* zero videos were successfully processed, including the case where
\* downloads succeed but every analysis fails.
C13_FailureIffNoSuccess ==
    bpc = "done" => (ReportsFailure(batch_return) <=> ProcessedVideos = <<>>)

\* C14: every URL passed to process_youtube_urls appears in download_results,
\* as a success or as a success:false entry with an error, and the report's
\* total_urls_provided is the number of URLs requested.
C14_EveryUrlAccounted ==
    bpc = "done" =>
        /\ \A k \in 1..Len(urls) :
              \E d \in 1..Len(batch_return.download_results) :
                 LET entry == batch_return.download_results[d]
                 IN  /\ entry.url = urls[k]
                     /\ entry.success \/ "error" \in DOMAIN entry
        /\ "summary" \in DOMAIN batch_return =>
              batch_return.summary.total_urls_provided = Len(urls)

\* The frames of a processed video that were analysed with success.
AnalysedCount(fate) ==
    IF batch_size_arg > 0
    THEN Cardinality({k \in 1..Len(fate.outcomes) : fate.outcomes[k] = "ok"})
    ELSE 0

\* C15: in the final report successful_analyses is the number of success
\* records, total_frames_extracted the sum of their extracted frames,
\* total_frames_analyzed the sum of their successful frame analyses (so at
\* most the extracted), and the pairwise list has M(M-1)/2 entries (there is
\* no list for M < 2); three videos of twenty analysed frames each with
\* batch size 5 give 3, 60 and 3 pairwise comparisons.
C15_ReportCounters ==
    (bpc = "done" /\ "summary" \in DOMAIN batch_return) =>
        LET counted == batch_return.summary
            pairwise == batch_return.similarity_analysis.pairwise_comparisons
            m == Len(ProcessedVideos)
            succeeded == {j \in 1..Len(process_log) :
                             ~FateFails(process_log[j])}
        IN  /\ counted.successful_analyses = m
            /\ counted.successful_analyses = Cardinality(succeeded)
            /\ counted.total_frames_extracted =
                  SumSeq([j \in 1..Len(process_log) |->
                             IF j \in succeeded
                             THEN Len(process_log[j].outcomes) ELSE 0])
            /\ counted.total_frames_analyzed =
                  SumSeq([j \in 1..Len(process_log) |->
                             IF j \in succeeded
                             THEN AnalysedCount(process_log[j]) ELSE 0])
            /\ counted.total_frames_analyzed <= counted.total_frames_extracted
            /\ m >= 2 =>
                  Len(pairwise.pairwise_comparisons) = (m * (m - 1)) \div 2
            /\ m < 2 => "pairwise_comparisons" \notin DOMAIN pairwise
            /\ (/\ urls = ScenarioUrls
                /\ batch_size_arg = 5
                /\ download_log = <<"ok", "ok", "ok">>
                /\ \A j \in 1..3 : /\ process_log[j].kind = "frames"
                                   /\ process_log[j].outcomes = ScenarioOutcomes)
               => /\ counted.successful_analyses = 3
                  /\ counted.total_frames_extracted = 60
                  /\ Len(pairwise.pairwise_comparisons) = 3

\* The report of three videos of twenty analysed frames each, batch size 5.
C15_Witness ==
    /\ bpc = "done"
    /\ urls = ScenarioUrls
    /\ batch_size_arg = 5
    /\ Len(process_log) = 3
    /\ \A j \in 1..3 : /\ process_log[j].kind = "frames"
                       /\ process_log[j].outcomes = ScenarioOutcomes
    /\ batch_return.summary.successful_analyses = 3
    /\ batch_return.summary.total_frames_extracted = 60
    /\ batch_return.summary.total_frames_analyzed = 60

\* The tokens of one processed video: its analysed frames, and its summary
\* when the summary call was made and answered.
ExpectedVideoTokens(fate) ==
    (IF batch_size_arg > 0
     THEN SumSeq([k \in 1..Len(fate.outcomes) |->
                     IF fate.outcomes[k] = "ok"
                     THEN OracleTokens(FramePath(k)) ELSE 0])
     ELSE 0)
    + (IF SummaryCalled(fate, batch_size_arg) /\ fate.summary = "ok"
       THEN SummaryTokens([k \in 1..AnalysedCount(fate) |-> k])
       ELSE 0)

\* C16: the report's total token count is the sum over the successfully
\* processed videos of the tokens of their successful frame analyses and of
\* their summary when it succeeded, plus the holistic comparison's tokens,
\* plus the tokens of all pairwise comparisons (failures contribute 0); the
\* estimated cost is that total times one fixed per-token constant.
C16_TokenTotal ==
    (bpc = "done" /\ "summary" \in DOMAIN batch_return) =>
        LET expected ==
                SumSeq([j \in 1..Len(process_log) |->
                           IF FateFails(process_log[j]) THEN 0
                           ELSE ExpectedVideoTokens(process_log[j])])
                + (IF holistic_calls = 1 /\ similarity_result.success
                   THEN HolisticTokens(ProcessedVideos) ELSE 0)
                + SumSeq([k \in 1..Len(pair_outcomes) |->
                             IF pair_outcomes[k]
                             THEN PairTokens(pair_calls[k][1],
                                             pair_calls[k][2])
                             ELSE 0])
        IN  /\ batch_return.summary.total_tokens_used = expected
            /\ batch_return.summary.estimated_cost_usd =
                  <<expected * 15, 1000000>>

\* Two videos were processed, one with a failed frame and one with a failed
\* summary; the holistic comparison was answered and the pair's call failed.
C16_Witness ==
    /\ bpc = "done"
    /\ Len(ProcessedVideos) = 2
    /\ \E j \in 1..Len(process_log) :
          /\ process_log[j].kind = "frames"
          /\ process_log[j].outcomes = <<"ok", "api_error">>
    /\ \E j \in 1..Len(process_log) :
          /\ process_log[j].kind = "frames"
          /\ process_log[j].summary = "api_error"
    /\ similarity_result.success = TRUE
    /\ pair_outcomes = <<FALSE>>
    /\ batch_return.summary.total_tokens_used > 0

\* C17: when exactly one video is successfully processed, process_youtube_urls
\* still assembles, saves and returns the report for that video; its
\* similarity section records the insufficient-videos failure of the holistic
\* and of the pairwise comparison and contributes 0 tokens.
C17_InsufficientIsReported ==
    (bpc = "done" /\ Len(ProcessedVideos) = 1) =>
        /\ "summary" \in DOMAIN batch_return
        /\ saved_report = batch_return
        /\ batch_return.summary.successful_analyses = 1
        /\ batch_return.video_analyses = video_results
        /\ LET similarity == batch_return.similarity_analysis
           IN  /\ "comprehensive_analysis" \in DOMAIN similarity
               /\ "pairwise_comparisons" \in DOMAIN similarity
               /\ similarity.comprehensive_analysis.success = FALSE
               /\ similarity.comprehensive_analysis.error = InsufficientError
               /\ similarity.pairwise_comparisons.success = FALSE
               /\ similarity.pairwise_comparisons.error = InsufficientError
               /\ similarity.total_tokens_used = 0
        /\ holistic_calls = 0
        /\ pair_calls = <<>>
        /\ batch_return.summary.total_tokens_used =
              ProcessedVideos[1].total_tokens

\* Two videos were downloaded, one failed validation, the other was
\* processed, and the report was returned.
C17_Witness ==
    /\ bpc = "done"
    /\ Len(video_results) = 2
    /\ Len(ProcessedVideos) = 1
    /\ \E j \in 1..2 : process_log[j].kind = "validation_failed"
    /\ saved_report = batch_return
    /\ batch_return.summary.total_tokens_used > 0

(***************************************************************************)
(* Progress hook, under Spec.                                              *)
(***************************************************************************)
\* The k-th invocation received (k, N, result of frame k), and frame k's
\* analysis had ended when it was made.
HookInOrder ==
    /\ Len(progress_log) <= Len(results)
    /\ \A k \in 1..Len(progress_log) :
          /\ progress_log[k] = <<k, Len(frame_data), results[k]>>
          /\ results[k].frame_number = k
          /\ results[k].frame_path = frame_data[k][2]
          /\ results[k].success = (outcome[k] = "ok")
          /\ task_state[k - 1] = "done"

\* C21 as stated: a supplied progress hook is invoked exactly N times for N
\* frames, the k-th invocation receiving (k, N, result of frame k), in input
\* order and never before frame k's analysis has completed.
C21_HookOncePerFrame ==
    progress_callback =>
        /\ HookInOrder
        /\ pc = "done" => Len(progress_log) = Len(frame_data)

\* C21 (amended): with a batch size >= 1, a supplied progress hook is invoked
\* exactly N times for N frames, the k-th invocation receiving (k, N, result
\* of frame k), in input order and never before frame k's analysis has
\* completed.
C21_HookPerFrameBatched ==
    (progress_callback /\ batch_size >= 1) =>
        /\ HookInOrder
        /\ pc = "done" => Len(progress_log) = Len(frame_data)

\* The hook was invoked for each of three or more frames analysed in chunks
\* of two, one of which failed, and the call has returned.
C21_Witness ==
    /\ pc = "done"
    /\ progress_callback
    /\ batch_size = 2
    /\ Len(frame_data) >= 3
    /\ Failed # {}
    /\ Len(progress_log) = Len(frame_data)

(***************************************************************************)
(* Stage ordering of process_youtube_urls, under SpecBatch.                *)
(***************************************************************************)
PipelineOrder ==
    <<"download", "validate", "sample", "analyze", "summarize", "persist">>

IsPrefix(s, t) ==
    Len(s) <= Len(t) /\ \A k \in 1..Len(s) : s[k] = t[k]

\* The stages executed so far for one video, in the order of execution.
EventsOf(v) == SelectSeq(stage_log, LAMBDA e : e.video = v)
StagesOf(v) == [k \in 1..Len(EventsOf(v)) |-> EventsOf(v)[k].stage]
OracleCallsOf(v) ==
    SumSeq([k \in 1..Len(EventsOf(v)) |-> EventsOf(v)[k].calls])

\* The video processed by the j-th iteration of the loop.
VideoOfIteration(j) == SuccessfulDownloads[j].info.id

\* The world stops the video at validation or sampling.
FailsEarly(fate) ==
    \/ fate.kind \in {"validation_failed", "raises"}
    \/ fate.outcomes = <<>>

\* C22: each video passes through Download, Validate, Sample, Analyze,
\* Summarize, Persist strictly in that order, none skipped or repeated, and
\* a video that fails at Validate or Sample executes no later stage: no
\* oracle call is made for it and no individual record is persisted.
C22_StagesInOrder ==
    /\ \A k \in 1..Len(urls) : IsPrefix(StagesOf(urls[k].id), PipelineOrder)
    /\ Len(video_results) = Len(process_log) =>
         \A j \in 1..Len(process_log) :
            LET v == VideoOfIteration(j)
            IN  /\ FailsEarly(process_log[j]) =>
                     /\ StagesOf(v) \in {<<"download", "validate">>,
                                         <<"download", "validate", "sample">>}
                     /\ OracleCallsOf(v) = 0
                     /\ ~video_results[j].breakdown_success
                     /\ "breakdown_path" \notin DOMAIN video_results[j]
                /\ video_results[j].breakdown_success <=>
                      StagesOf(v) = PipelineOrder

\* One video went through the six stages with oracle calls, another stopped
\* at validation, and the run has ended.
C22_Witness ==
    /\ bpc = "done"
    /\ Len(process_log) = 2
    /\ process_log[1].kind = "validation_failed"
    /\ StagesOf(VideoOfIteration(1)) = <<"download", "validate">>
    /\ StagesOf(VideoOfIteration(2)) = PipelineOrder
    /\ OracleCallsOf(VideoOfIteration(2)) = 3

\* The stages of single videos, downloads left out.
ProcessingEvents ==
    SelectSeq(stage_log, LAMBDA e : e.video # 0 /\ e.stage # "download")

\* The stages of one video are next to each other in the sequence.
Contiguous(events) ==
    \A a, c \in 1..Len(events) :
        (a < c /\ events[a].video = events[c].video)
            => events[c - 1].video = events[a].video

\* C23 as stated: every stage of one video, from download through summarize,
\* completes before any stage, download included, of the next video begins.
C23_VideosStrictlySequential ==
    Contiguous(SelectSeq(stage_log, LAMBDA e : e.video # 0))

\* C23 (amended): the downloads of all videos come first, one after the
\* other in URL order; after them every stage of one video, from validate
\* through persist, completes before any stage of the next video begins, in
\* the order of the successful downloads.
C23_ProcessingSequential ==
    /\ bpc # "download" =>
         /\ Len(stage_log) >= Len(download_results)
         /\ \A k \in 1..Len(download_results) :
               stage_log[k] =
                  StageEvent("download", download_results[k].url.id, 0)
         /\ \A k \in 1..Len(stage_log) :
               stage_log[k].stage = "download" => k <= Len(download_results)
         /\ \A k \in 2..Len(download_results) :
               download_results[k - 1].url.id < download_results[k].url.id
    /\ LET events == ProcessingEvents
       IN  /\ Contiguous(events)
           /\ \A a \in 2..Len(events) :
                  events[a - 1].video <= events[a].video
    /\ \A j \in 1..Len(process_log) :
          StagesOf(VideoOfIteration(j)) # <<"download">>

\* Two videos were downloaded before the first of them was validated, and
\* both were processed to the end.
C23_Witness ==
    /\ bpc = "done"
    /\ Len(process_log) >= 2
    /\ Len(stage_log) >= 3
    /\ stage_log[1].stage = "download"
    /\ stage_log[2].stage = "download"
    /\ stage_log[3] = StageEvent("validate", stage_log[1].video, 0)
    /\ StagesOf(VideoOfIteration(2)) = PipelineOrder

\* The stages of the whole batch: similarity analysis and report.
BatchStages == SelectSeq(stage_log, LAMBDA e : e.video = 0)

\* The similarity analysis has run once, after every video, and the report
\* once, after it.
SimilarityOnceThenReport ==
    /\ Len(video_results) = Len(SuccessfulDownloads)
    /\ Len(stage_log) >= 2
    /\ stage_log[Len(stage_log)].stage = "report"
    /\ stage_log[Len(stage_log) - 1].stage = "similarity"
    /\ Len(BatchStages) = 2
    /\ holistic_calls <= 1
    /\ similarity_result # None
    /\ pairwise_result # None
    /\ saved_report # None
    /\ "similarity_analysis" \in DOMAIN saved_report
    /\ saved_report.similarity_analysis.comprehensive_analysis
          = similarity_result
    /\ saved_report.similarity_analysis.pairwise_comparisons
          = pairwise_result

\* The Similarity Engine is never invoked before every video has reached its
\* terminal state, and no report exists before it has returned.
SimilarityNotEarly ==
    /\ mpc # "idle" =>
          /\ Len(video_results) = Len(SuccessfulDownloads)
          /\ Len(SelectSeq(BatchStages, LAMBDA e : e.stage = "similarity")) = 1
    /\ (mpc # "done" \/ bpc # "done") =>
          /\ saved_report = None
          /\ \A k \in 1..Len(stage_log) : stage_log[k].stage # "report"

\* C24 as stated: every run of process_youtube_urls invokes the Similarity
\* Engine exactly once, only after every video has reached a terminal
\* state, and assembles and persists the report only after it has returned.
C24_SimilarityOncePerRun ==
    /\ SimilarityNotEarly
    /\ bpc = "done" => SimilarityOnceThenReport

\* C24 (amended): a run in which at least one video was downloaded invokes
\* the Similarity Engine exactly once (one holistic and one pairwise pass),
\* only after every video has reached a terminal state, and assembles and
\* persists the report only after it has returned; a run in which no video
\* was downloaded returns its failure without invoking the Similarity Engine
\* and without a report.
C24_SimilarityOncePerProcessedRun ==
    /\ SimilarityNotEarly
    /\ bpc = "done" =>
          IF SuccessfulDownloads # <<>>
          THEN SimilarityOnceThenReport
          ELSE /\ mpc = "idle"
               /\ BatchStages = <<>>
               /\ saved_report = None
               /\ holistic_calls = 0
               /\ pair_calls = <<>>

\* Three videos were processed, two with success, the Similarity Engine made
\* its holistic call and one pairwise call, and the report was saved.
C24_Witness ==
    /\ bpc = "done"
    /\ Len(video_results) = 3
    /\ Len(ProcessedVideos) = 2
    /\ holistic_calls = 1
    /\ Len(pair_calls) = 1
    /\ SimilarityOnceThenReport

(***************************************************************************)
(* Frames that cannot be read or saved, under SpecSampler.                 *)
(***************************************************************************)
\* The positions in the selection that were skipped, and the others among
\* those the loop has gone through, in increasing order.
SkippedPositions == {skipped[k][1] : k \in 1..Len(skipped)}
KeptPositions == SortedSeq((1..fi) \ SkippedPositions)

\* What process_single_video returns for the frames extracted, when every
\* later step succeeds.
OrchestratorRecord ==
    process_single_video(
        DownloadResult([id |-> 1, valid |-> TRUE], "ok"),
        [kind |-> "frames", summary |-> "ok",
         outcomes |-> [k \in 1..Len(extracted_frames) |-> "ok"]],
        1, 1).value

\* C25: when decoding fails at some of the selected indices,
\* extract_fixed_frames skips only those indices, does not abort or raise,
\* and returns the frames of the other indices in increasing index order;
\* only a final count of zero makes the orchestrator fail the video.
C25_DecodeFailureSkipped ==
    Selected =>
        /\ exception = None
        /\ Len(extracted_frames) = Len(KeptPositions)
        /\ \A k \in 1..Len(extracted_frames) :
              LET position == KeptPositions[k]
                  timestamp == Timestamp(frame_indices[position], video.fps)
              IN  extracted_frames[k] =
                     <<timestamp, FrameFile(position - 1, timestamp)>>
        /\ \A k \in 2..Len(KeptPositions) :
              frame_indices[KeptPositions[k - 1]]
                 < frame_indices[KeptPositions[k]]
        /\ xpc = "done" =>
              /\ fi = Len(frame_indices)
              /\ Len(extracted_frames) = Len(frame_indices) - Len(skipped)
              /\ OrchestratorRecord.breakdown_success
                    <=> extracted_frames # <<>>

\* The frame at the second of four selected indices could not be decoded;
\* the call returned the three others.
C25_Witness ==
    /\ xpc = "done"
    /\ Len(frame_indices) = 4
    /\ skipped = <<<<2, "decode">>>>
    /\ Len(extracted_frames) = 3
    /\ extracted_frames[2][2] = FrameFile(2, extracted_frames[2][1])
    /\ OrchestratorRecord.breakdown_success

\* C26: every decoded-video handle the Frame Sampler opens is released on
\* every exit path, errors included: no call ends, by returning or by
\* raising, with its handle still open.
C26_HandleReleased ==
    xpc \in {"done", "raised"} => cap # "open"

(***************************************************************************)
(* Interval sampling, under SpecInterval.                                  *)
(***************************************************************************)
\* round(fps * interval_seconds), half to even.
FrameIntervalRounded(fps, seconds) ==
    LET x == RatMul(fps, seconds)
        q == x[1] \div x[2]
        r == x[1] % x[2]
    IN  IF 2 * r > x[2] \/ (2 * r = x[2] /\ q % 2 = 1) THEN q + 1 ELSE q

\* n is a multiple of m.
IsMultiple(n, m) == IF m = 0 THEN n = 0 ELSE n % m = 0

\* C28: for every frame rate and interval, products that are not whole or
\* are below 1 included, extract_frames scans the frames one by one and
\* selects exactly those whose index is a multiple of
\* round(frameRate * intervalSeconds).
C28_SelectsMultiplesOfRounded ==
    (ipc \in {"done", "raised"} /\ ivideo.opens /\ ivideo.fps[1] > 0) =>
        /\ ipc = "done"
        /\ selected_frames =
              SortedSeq({n \in 0..(ivideo.frame_count - 1) :
                           IsMultiple(n, FrameIntervalRounded(
                                            ivideo.fps, interval_seconds))})

(***************************************************************************)
(* Oracle calls are not repeated, under Spec.                              *)
(***************************************************************************)
\* The frames whose coroutine has issued its oracle call.
FramesCalled ==
    {k \in DOMAIN task_state :
        task_state[k] \in {"inflight", "done"} /\ outcome[k + 1] # "missing"}

\* The failure of frame k is recorded in its result.
FailureRecorded(k) ==
    /\ ~results[k].success
    /\ "error" \in DOMAIN results[k]
    /\ results[k].error = ErrorText(outcome[k])

HasFrames(fate) == fate.kind = "frames" /\ fate.outcomes # <<>>

\* No summary text is produced: no frame was analysed with success, or the
\* summary call failed.
NoSummaryText(fate) ==
    \/ batch_size_arg < 0
    \/ \A k \in 1..Len(fate.outcomes) : fate.outcomes[k] # "ok"
    \/ fate.summary # "ok"

\* The entry prepare_video_summaries makes for the j-th video record.
SimilarityEntries(j) ==
    SelectSeq(prepare_video_summaries(video_results),
              LAMBDA entry : entry.video_index = j)

\* Every video with a frame has a success record and an entry of the
\* Similarity Engine, with an empty summary text when none was produced.
FramesRecordedAsSuccess ==
    Len(video_results) = Len(process_log) =>
       \A j \in 1..Len(process_log) :
          HasFrames(process_log[j]) =>
             /\ video_results[j].breakdown_success
             /\ "frames_extracted" \in DOMAIN video_results[j]
             /\ video_results[j].frames_extracted
                   = Len(process_log[j].outcomes)
             /\ Len(SimilarityEntries(j)) = 1
             /\ NoSummaryText(process_log[j])
                   => SimilarityEntries(j)[1].summary = ""

\* The report counts every video with a frame, and the Similarity Engine
\* compares them all.
FramesCountedAsSuccess ==
    (bpc = "done" /\ "summary" \in DOMAIN batch_return) =>
       LET n == Len(SelectSeq(process_log, HasFrames))
       IN  /\ batch_return.summary.successful_analyses = n
           /\ Len(prepare_video_summaries(video_results)) = n
           /\ n >= 2 =>
                 /\ holistic_calls = 1
                 /\ Len(pair_calls) = (n * (n - 1)) \div 2
                 /\ pairwise_result.success
                 /\ pairwise_result.total_pairs = (n * (n - 1)) \div 2

\* C29 as stated: a video with at least one extracted frame is recorded as
\* successfully processed even when every frame analysis failed or the
\* summary failed: breakdown_success is true, it is counted in
\* successful_analyses, and the Similarity Engine includes it, with an
\* empty summary text, in its two-video minimum and its pairs.
C29_FramesMeanSuccess ==
    FramesRecordedAsSuccess /\ FramesCountedAsSuccess

\* C29 (amended): with a batch size other than 0, a video with at least one
\* extracted frame is recorded as successfully processed even when every
\* frame analysis failed or the summary failed: breakdown_success is true,
\* it is counted in successful_analyses, and the Similarity Engine includes
\* it, with an empty summary text, in its two-video minimum and its pairs.
C29_FramesMeanSuccessBatched ==
    batch_size_arg # 0 => (FramesRecordedAsSuccess /\ FramesCountedAsSuccess)

\* Two videos were processed, every frame analysis of the first failed and
\* the summary of the second failed; both are counted as successful and
\* compared with each other.
C29_Witness ==
    /\ bpc = "done"
    /\ batch_size_arg = 5
    /\ Len(process_log) = 2
    /\ process_log[1] =
          [kind |-> "frames", outcomes |-> <<"api_error">>, summary |-> "ok"]
    /\ process_log[2] =
          [kind |-> "frames", outcomes |-> <<"ok">>, summary |-> "api_error"]
    /\ batch_return.summary.successful_analyses = 2
    /\ batch_return.summary.total_frames_analyzed = 1
    /\ Len(pair_calls) = 1
    /\ SimilarityEntries(1)[1].summary = ""
    /\ SimilarityEntries(2)[1].summary = ""

(***************************************************************************)
(* Batching against the sequential analysis, under Spec.                   *)
(***************************************************************************)
\* C30: for every frame list and every assignment of outcomes to frames,
\* analyze_multiple_frames_async with any batch size >= 1 returns the same
\* result list as the sequential analyze_multiple_frames, hence the same
\* list for any two batch sizes.
C30_BatchedEqualsSequential ==
    (pc = "done" /\ batch_size >= 1) =>
        results = analyze_multiple_frames_sequential(frame_data, outcome)

\* Four frames, one of them missing and one refused by the oracle, were
\* analysed in chunks of three, the second frame ending before the first,
\* and the call returned what the sequential analysis returns.
C30_Witness ==
    /\ pc = "done"
    /\ batch_size = 3
    /\ Len(frame_data) = 4
    /\ outcome = <<"ok", "missing", "api_error", "ok">>
    /\ completion_order[1] = 1
    /\ results = analyze_multiple_frames_sequential(frame_data, outcome)
    /\ Len(results) = 4

====
